---- MODULE Spec2Model ----
(***************************************************************************)
(* A model of pysumoapi's SumoClient (src/pysumoapi/client.py): the        *)
(* connection-pool life cycle (__aenter__ / __aexit__), the request        *)
(* dispatcher _make_request running on the httpx_retries RetryTransport    *)
(* that __aenter__ installs, and the argument validation of the endpoint   *)
(* methods that accept a basho ID.                                         *)
(*                                                                         *)
(* Strings that the code inspects character by character (basho IDs) are   *)
(* sequences of one-character strings; exception messages are sequences    *)
(* of words, so that a regular-expression search for a literal text is a   *)
(* search for a contiguous run of words.  An optional argument is a set:   *)
(* {} is None and {v} is the value v.                                      *)
(***************************************************************************)
EXTENDS Integers, Sequences, FiniteSets, TLC

\* ------------------------------------------------------------- bounds
\* The largest `retries` a client is constructed with.
MaxRetries == 2
\* The number of connection pools the model lets __aenter__ create.
MaxPools == 2
\* The number of months the clock advances past the initial month.
MaxTicks == 1
\* The longest list of records a response carries.
MaxRecords == 3

\* ------------------------------------------------------------ strings
Digits == {"0", "1", "2", "3", "4", "5", "6", "7", "8", "9"}

DigitSeq == <<"0", "1", "2", "3", "4", "5", "6", "7", "8", "9">>

DigitVal(c) == (CHOOSE i \in DOMAIN DigitSeq : DigitSeq[i] = c) - 1

\* str.isdigit(): false for the empty string, true when every character is a digit.
isdigit(s) == s # <<>> /\ \A i \in DOMAIN s : s[i] \in Digits

RECURSIVE DigitsValue(_)
DigitsValue(s) ==
  IF s = <<>> THEN 0
  ELSE 10 * DigitsValue(SubSeq(s, 1, Len(s) - 1)) + DigitVal(s[Len(s)])

\* int(s) for a string over digits and letters: {} is a ValueError, {v} the value.
\* Leading zeros are accepted (int("001") = 1); the empty string is not.
ParseInt(s) == IF isdigit(s) THEN {DigitsValue(s)} ELSE {}

\* s[:n] and s[n:] of a Python string; slicing never raises.
Prefix(s, n) == SubSeq(s, 1, IF Len(s) < n THEN Len(s) ELSE n)

Suffix(s, n) == SubSeq(s, n + 1, Len(s))

\* The character sequence as one string (for paths and queries).
RECURSIVE Str(_)
Str(s) == IF s = <<>> THEN "" ELSE s[1] \o Str(Tail(s))

\* re.search(pat, msg) for a literal pattern, on sequences of words.
Matches(msg, pat) ==
  \E i \in 0..(Len(msg) - Len(pat)) : SubSeq(msg, i + 1, i + Len(pat)) = pat

\* --------------------------------------------------------------- time
\* datetime(year, month, 1) raises ValueError outside these ranges.
DateOk(year, month) == year >= 1 /\ year <= 9999 /\ month >= 1 /\ month <= 12

\* A comparison of the years alone (mutant of IsFuture).
IsFuture_YearOnly(year, month, t) == year > t.year

\* basho_date > datetime.now(): basho_date is the first instant of its month,
\* and now is never before the first instant of the current month, so the
\* comparison is the one of (year, month) pairs.
IsFuture(year, month, t) ==
  year > t.year \/ (year = t.year /\ month > t.month)

NextMonth(t) ==
  IF t.month = 12 THEN [year |-> t.year + 1, month |-> 1]
  ELSE [year |-> t.year, month |-> t.month + 1]

\* ------------------------------------------------- exception classes
\* The classes a caller's `except` or pytest.raises matches: a class and its bases.
Bases(kind) ==
  CASE kind = "JSONDecodeError" -> {"JSONDecodeError", "ValueError", "Exception"}
    [] kind = "ValidationError" -> {"ValidationError", "ValueError", "Exception"}
    [] kind = "HTTPStatusError" -> {"HTTPStatusError", "HTTPError", "Exception"}
    [] kind = "ConnectError"
         -> {kind, "NetworkError", "TransportError", "RequestError", "HTTPError", "Exception"}
    [] kind = "ReadTimeout"
         -> {kind, "TimeoutException", "TransportError", "RequestError", "HTTPError", "Exception"}
    [] kind = "RemoteProtocolError"
         -> {kind, "ProtocolError", "TransportError", "RequestError", "HTTPError", "Exception"}
    [] kind = "DecodingError" -> {kind, "RequestError", "HTTPError", "Exception"}
    [] kind \in {"value", "none"} -> {}
    [] OTHER -> {kind, "Exception"}

IsInstance(r, cls) == cls \in Bases(r.kind)

IsError(r) == r.kind \notin {"value", "none"}

\* What a call has produced: nothing yet, a returned value, or a raised exception.
NoResult == [kind |-> "none", msg |-> <<>>, status |-> 0, body |-> ""]

Returned(payload) == [kind |-> "value", msg |-> <<>>, status |-> 0, body |-> payload]

Raised(kind, msg) == [kind |-> kind, msg |-> msg, status |-> 0, body |-> ""]

\* ------------------------------------------------------- the remote
\* What one attempt on the wire produces: an exception of the transport or a
\* response (status, body).  Bodies: "json" is a JSON document of the endpoint's
\* schema, "json_other" a JSON document that does not fit it, "not_json" is no
\* JSON, "error_json" is {"error": m} with m the message ErrorText.
NoOutcome == [kind |-> "none", status |-> 0, body |-> ""]

Exc(kind) == [kind |-> kind, status |-> 0, body |-> ""]

Resp(status, body) == [kind |-> "response", status |-> status, body |-> body]

Outcomes ==
  {Exc("ConnectError"), Exc("ReadTimeout"), Exc("RemoteProtocolError"),
   Exc("DecodingError"),
   Resp(200, "json"), Resp(200, "json_other"), Resp(200, "not_json"),
   Resp(400, "not_json"), Resp(404, "error_json"), Resp(408, "not_json"),
   Resp(429, "not_json"), Resp(500, "not_json"), Resp(503, "not_json")}

ErrorText == <<"Rikishi", "not", "found">>

\* ------------------------------------------------- the retry policy
\* __aenter__ builds Retry(total=self.retries, backoff_factor=0.5) and leaves
\* every other option of httpx_retries.Retry at its default.
RETRYABLE_METHODS == {"HEAD", "GET", "PUT", "DELETE", "OPTIONS", "TRACE"}

\* The status list with 408 added (mutant of RETRYABLE_STATUS_CODES).
RETRYABLE_STATUS_CODES_With408 == {408, 429, 502, 503, 504}

RETRYABLE_STATUS_CODES == {429, 502, 503, 504}

RETRYABLE_EXCEPTIONS == {"TimeoutException", "NetworkError", "RemoteProtocolError"}

is_retryable_method(method) == method \in RETRYABLE_METHODS

\* Every error status retried (mutant of is_retryable_status_code).
is_retryable_status_code_AnyError(status) == status >= 400

is_retryable_status_code(status) == status \in RETRYABLE_STATUS_CODES

is_retryable_exception(kind) == Bases(kind) \cap RETRYABLE_EXCEPTIONS # {}

\* One retry too many (mutant of is_exhausted).
is_exhausted_OffByOne(attempts_made, total) == attempts_made > total

is_exhausted(attempts_made, total) == attempts_made >= total

\* RetryTransport's decision after one attempt: TRUE when it goes round its
\* loop again (increment, sleep, send), FALSE when it returns the response or
\* lets the exception out.  A method outside RETRYABLE_METHODS is sent once.
ShouldRetry(method, attempts_made, total, o) ==
  /\ is_retryable_method(method)
  /\ ~is_exhausted(attempts_made, total)
  /\ IF o.kind = "response" THEN is_retryable_status_code(o.status)
     ELSE is_retryable_exception(o.kind)

\* ------------------------------------------------------- messages
MsgNotInitialized ==
  <<"Client", "not", "initialized.", "Use", "'async", "with'", "context", "manager.">>

MsgYYYYMM == <<"Basho", "ID", "must", "be", "in", "YYYYMM", "format">>

MsgFutureBasho == <<"Cannot", "get", "details", "for", "future", "basho">>

MsgFetchFuture == <<"Cannot", "fetch", "future", "basho">>

MsgInvalidDivision == <<"Invalid", "division">>

MsgDay == <<"Day", "must", "be", "between", "1", "and", "15">>

MsgRikishiId == <<"Rikishi", "ID", "must", "be", "positive">>

MsgOpponentId == <<"Opponent", "ID", "must", "be", "positive">>

MsgEither == <<"Either", "basho_id", "or", "rikishi_id", "must", "be", "provided">>

MsgSortOrder == <<"Sort", "order", "must", "be", "either", "'asc'", "or", "'desc'">>

MsgSortField ==
  <<"Invalid", "sort", "field.", "Must", "be", "one", "of:", "count,", "kimarite,",
    "lastUsage">>

MsgLimitPositive == <<"Limit", "must", "be", "a", "positive", "integer">>

MsgLimitCap == <<"Limit", "cannot", "exceed", "1000">>

MsgSkip == <<"Skip", "must", "be", "a", "non-negative", "integer">>

MsgKimariteEmpty == <<"Kimarite", "cannot", "be", "empty">>

\* `skip < 0` on None, raised by the interpreter.
MsgNoneCompare ==
  <<"'<'", "not", "supported", "between", "instances", "of", "'NoneType'", "and",
    "'int'">>

\* A keyword argument that __init__ does not declare, raised by the interpreter.
MsgUnexpectedKeyword ==
  <<"SumoClient.__init__()", "got", "an", "unexpected", "keyword", "argument",
    "'verify_ssl'">>

\* datetime(year, month, 1) outside its range, raised by datetime itself.
MsgDatetime == <<"month", "must", "be", "in", "1..12">>

\* json.loads on a body that is no JSON.
MsgJSONDecode == <<"Expecting", "value:", "line", "1", "column", "1", "(char", "0)">>

\* httpx's message of raise_for_status.
MsgStatus(status) ==
  <<IF status < 500 THEN "Client" ELSE "Server", "error", ToString(status)>>

\* ------------------------------------------------------- responses
\* response.raise_for_status(): HTTPStatusError, which holds the response,
\* unless the status is a success (2xx).
raise_for_status(o) ==
  IF o.status >= 200 /\ o.status <= 299 THEN NoResult
  ELSE [kind |-> "HTTPStatusError", msg |-> MsgStatus(o.status),
        status |-> o.status, body |-> o.body]

\* response.json(): the decoded body, or json.JSONDecodeError.
json(o) ==
  IF o.body = "not_json" THEN Raised("JSONDecodeError", MsgJSONDecode)
  ELSE Returned(o.body)

\* Lines 110-111 of _make_request on a response the transport returned.
ReadResponse(o) ==
  IF IsError(raise_for_status(o)) THEN raise_for_status(o) ELSE json(o)

\* The endpoints' model_validate on the data _make_request returned; the
\* generic helpers return the data as it is.
RawOps == {"get", "post", "put", "delete"}

\* The data returned as it came, validated or not (mutant of Validate).
Validate_Lenient(op, r) == r

Validate(op, r) ==
  IF r.kind = "value" /\ op \notin RawOps /\ r.body # "json"
  THEN Raised("ValidationError", <<"validation", "error">>)
  ELSE r

\* What the call ends with when the transport hands back outcome o for good.
Complete(op, o) ==
  IF o.kind = "response" THEN Validate(op, ReadResponse(o))
  ELSE Raised(o.kind, <<o.kind>>)

\* ------------------------------------------------------ record lists
\* An item of a JSON list: its id, its bashoId, and whether model_validate
\* accepts it.
Rec(id, basho_id, valid) == [id |-> id, basho_id |-> basho_id, valid |-> valid]

\* The items the remote puts in a list: three bashos, one of them twice, and
\* an item that lacks its bashoId.
RecordPool ==
  {Rec(1, <<"2", "0", "2", "3", "0", "1">>, TRUE),
   Rec(2, <<"2", "0", "2", "3", "0", "3">>, TRUE),
   Rec(3, <<"2", "0", "2", "3", "0", "1">>, TRUE),
   Rec(4, <<"2", "0", "2", "2", "1", "1">>, TRUE),
   Rec(5, <<>>, FALSE)}

RecordLists == UNION {[1..n -> RecordPool] : n \in 0..MaxRecords}

\* a < b on Python strings of digits: by the first character that differs, a
\* proper prefix first.
RECURSIVE StrLt(_, _)
StrLt(a, b) ==
  IF b = <<>> THEN FALSE
  ELSE IF a = <<>> THEN TRUE
  ELSE IF a[1] = b[1] THEN StrLt(Tail(a), Tail(b))
  ELSE DigitVal(a[1]) < DigitVal(b[1])

\* The place list.sort gives x among the sorted items before it: behind every
\* item that x does not strictly precede, so that equal keys keep their order.
RECURSIVE Place(_, _, _)
Place(sorted, x, reverse) ==
  IF sorted = <<>> THEN <<x>>
  ELSE IF (IF reverse THEN StrLt(sorted[1].basho_id, x.basho_id)
           ELSE StrLt(x.basho_id, sorted[1].basho_id))
  THEN <<x>> \o sorted
  ELSE <<sorted[1]>> \o Place(Tail(sorted), x, reverse)

RECURSIVE StableSort(_, _)
StableSort(items, reverse) ==
  IF items = <<>> THEN <<>>
  ELSE Place(StableSort(SubSeq(items, 1, Len(items) - 1), reverse),
             items[Len(items)], reverse)

\* A sort that is always ascending (mutant of sort).
sort_IgnoreReverse(items, reverse) == StableSort(items, FALSE)

\* items.sort(key=lambda m: m.basho_id, reverse=reverse)
sort(items, reverse) == StableSort(items, reverse)

\* Lines 560-566: every item is validated, then the list is sorted if a sort
\* order is given.  The result, and the list returned with it.
ListResult(data) ==
  IF \E i \in DOMAIN data : ~data[i].valid
  THEN Raised("ValidationError", <<"validation", "error">>)
  ELSE Returned("json")

ListItems(data, sort_order) ==
  IF \E i \in DOMAIN data : ~data[i].valid THEN <<>>
  ELSE IF sort_order # {} /\ sort_order # {""}
  THEN sort(data, sort_order = {"desc"})
  ELSE data

\* The methods that return a list of records.
ListOps == {"get_measurements", "get_ranks", "get_shikonas"}

\* ---------------------------------------------------- path templates
\* A path template is a sequence of literals and {name} placeholders.
Lit(s) == [ph |-> FALSE, s |-> s]

Ph(name) == [ph |-> TRUE, s |-> name]

Placeholders(path) == {path[i].s : i \in {j \in DOMAIN path : path[j].ph}}

EmptyDict == [k \in {} |-> ""]

\* Every parameter sent in the query, those of the path too (mutant of
\* query_params).
query_params_All(path, params) == params

\* Lines 94-99: the parameters named by a placeholder, and the others.
path_params(path, params) ==
  [k \in DOMAIN params \cap Placeholders(path) |-> params[k]]

query_params(path, params) ==
  [k \in DOMAIN params \ Placeholders(path) |-> params[k]]

\* Line 102: path.format(**path_params); only called with every placeholder bound.
RECURSIVE formatted_path(_, _)
formatted_path(path, pp) ==
  IF path = <<>> THEN ""
  ELSE (IF path[1].ph THEN pp[path[1].s] ELSE path[1].s)
       \o formatted_path(Tail(path), pp)

\* ------------------------------------------------------------ inputs
\* Basho IDs the callers pass: well formed ones (past, the initial month, the
\* next month, next year, month 00, month 13) and malformed ones (5 and 7
\* characters that still split into a year and a month, a letter, empty).
BashoIds ==
  {<<"2", "0", "2", "3", "0", "1">>, <<"2", "0", "2", "3", "0", "6">>,
   <<"2", "0", "2", "3", "0", "7">>, <<"2", "0", "2", "4", "0", "1">>,
   <<"2", "0", "2", "3", "0", "0">>, <<"2", "0", "2", "3", "1", "3">>,
   <<"2", "0", "2", "3", "1">>, <<"2", "0", "2", "3", "0", "0", "1">>,
   <<"2", "0", "2", "3", "x", "1">>, <<>>}

OptBashoIds == {{}} \cup {{b} : b \in BashoIds}

Divisions == {"Makuuchi", "Jonokuchi", "makuuchi"}

Days == {0, 1, 15, 16}

RikishiIds == {-1, 0, 1}

OptRikishiIds == {{}} \cup {{r} : r \in RikishiIds}

SortOrders == {{}, {"asc"}, {"desc"}, {"up"}}

Methods == {"GET", "POST", "PUT", "DELETE"}

\* Path templates and parameters the callers of get pass: no placeholder, one,
\* two; every choice of the parameters x, y and z.
PathTemplates ==
  {<<Lit("/test")>>, <<Lit("/a/"), Ph("x")>>,
   <<Lit("/a/"), Ph("x"), Lit("/b/"), Ph("y")>>}

ParamDicts ==
  {[k \in K |-> CASE k = "x" -> "1" [] k = "y" -> "2" [] OTHER -> "3"] :
     K \in SUBSET {"x", "y", "z"}}

\* Page sizes and offsets the callers pass: negative, zero, a usual value,
\* the documented cap of 1000 and the first value above it.
Limits == {-1, 0, 10, 1000, 1001}

OptLimits == {{}} \cup {{l} : l \in Limits}

Skips == {-1, 0, 5}

OptSkips == {{}} \cup {{k} : k \in Skips}

SortFields == {{}, {"count"}, {"name"}}

Kimarites == {"", "yorikiri"}

\* The filter arguments of get_rikishis: the defaults, every filter set, and
\* filters that are given but false in an `if`.
RikishiFilters ==
  {[shikona_en |-> {}, heya |-> {}, sumodb_id |-> {}, nsk_id |-> {}, intai |-> {},
    measurements |-> TRUE, ranks |-> TRUE, shikonas |-> TRUE],
   [shikona_en |-> {"Hakuho"}, heya |-> {"Miyagino"}, sumodb_id |-> {7},
    nsk_id |-> {9}, intai |-> {TRUE},
    measurements |-> FALSE, ranks |-> TRUE, shikonas |-> FALSE],
   [shikona_en |-> {""}, heya |-> {}, sumodb_id |-> {0}, nsk_id |-> {}, intai |-> {FALSE},
    measurements |-> TRUE, ranks |-> FALSE, shikonas |-> TRUE]}

\* `if x:` on an optional string held as one value: None and "" are false.
TruthyText(opt) == opt # {} /\ opt # {""}

\* str(b).lower() of a bool.
lower(b) == IF b THEN "true" ELSE "false"

\* `if x:` on an optional string: None and "" are false.
TruthyStr(opt) == opt # {} /\ opt # {<<>>}

\* `if x:` on an optional integer: None and 0 are false.
TruthyInt(opt) == opt # {} /\ opt # {0}

Val(opt) == CHOOSE v \in opt : TRUE

\* -------------------------------------------------------------- state
VARIABLES
  retries,    \* self.retries, set by the constructor
  timeout,    \* self.timeout, set by the constructor: {} is None (no timeout)
  _client,    \* self._client: 0 is None, else the pool it refers to
  pools,      \* the pools created so far: pools[p] is "open" or "closed"
  depth,      \* the number of `async with` blocks entered and not yet left
  exitedBy,   \* how the block just left was left: "none" (normally) or the
              \* class of the exception; "" once the client is used again
  now,        \* datetime.now(), to the month
  ticks,      \* the months the clock has advanced
  _portal,    \* SumoSyncClient._portal: 0 is None, 1 the blocking portal
  call,       \* the call in progress or just finished, of the running task
  peer        \* the call of a second task of the event loop, while that task
              \* is suspended at an await

vars ==
  <<retries, timeout, _client, pools, depth, exitedBy, now, ticks, _portal, call, peer>>

NoArgs ==
  [basho_id |-> {}, division |-> {}, day |-> {}, rikishi_id |-> {},
   opponent_id |-> {}, sort_order |-> {}, sort_field |-> {}, kimarite |-> {},
   limit |-> {}, skip |-> {}, filters |-> {}, verify_ssl |-> {}]

IdleCall ==
  [pc |-> "idle", op |-> "", args |-> NoArgs, at |-> [year |-> 0, month |-> 0],
   method |-> "", path |-> <<>>, params |-> EmptyDict,
   url |-> "", query |-> EmptyDict, json |-> {}, pool |-> 0,
   attempts_made |-> 0, nsent |-> 0, last |-> NoOutcome, result |-> NoResult,
   data |-> <<>>, items |-> <<>>]

\* The call ends before any request: result r is raised to the caller.
Fail(op, args, r) ==
  [IdleCall EXCEPT !.pc = "done", !.op = op, !.args = args, !.at = now,
                   !.result = r]

\* _make_request up to the await of self._client.request (lines 90-104).
_make_request(op, args, method, path, params) ==
  IF _client = 0 THEN Fail(op, args, Raised("RuntimeError", MsgNotInitialized))
  ELSE IF ~(Placeholders(path) \subseteq DOMAIN params)
  THEN [Fail(op, args, Raised("KeyError", <<"placeholder">>))
          EXCEPT !.method = method, !.path = path, !.params = params]
  ELSE [IdleCall EXCEPT !.pc = "send", !.op = op, !.args = args, !.at = now,
                        !.method = method, !.path = path, !.params = params,
                        !.url = formatted_path(path, path_params(path, params)),
                        !.query = query_params(path, params),
                        !.pool = _client]

\* The request of call c carries the JSON body `body` ({} is json=None).
WithJson(c, body) == IF c.pc = "send" THEN [c EXCEPT !.json = body] ELSE c

\* The timeouts a client is constructed with: the default None, and 5 seconds.
Timeouts == {{}, {5}}

Init ==
  /\ retries \in 0..MaxRetries
  /\ timeout \in Timeouts
  /\ _client = 0
  /\ pools = <<>>
  /\ depth = 0
  /\ exitedBy = ""
  /\ now = [year |-> 2023, month |-> 6]
  /\ ticks = 0
  /\ _portal = 0
  /\ call = IdleCall
  /\ peer = IdleCall

\* No call is in progress (the caller awaits each call before its next step).
Quiet == call.pc \in {"idle", "done"}

\* The caller is free to make a call: it has taken the last call's result.
Ready == call.pc = "idle"

\* ----------------------------------------------------- the context
\* The values a caller gives for verify_ssl: none, True, False.
OptVerifySsl == {{}, {TRUE}, {FALSE}}

\* SumoClient(base_url, timeout, retries, verify_ssl=...): the caller builds a
\* client anew, with the arguments of the first construction, and goes on with
\* it.  __init__ declares base_url, timeout and retries only: any other
\* keyword is a TypeError of the call, and no client is built.
SumoClient_init(verify_ssl) ==
  /\ Ready
  /\ _client = 0
  /\ depth = 0
  /\ call' =
       IF verify_ssl # {}
       THEN Fail("SumoClient", [NoArgs EXCEPT !.verify_ssl = verify_ssl],
                 Raised("TypeError", MsgUnexpectedKeyword))
       ELSE Fail("SumoClient", NoArgs, Returned("client"))
  /\ exitedBy' = ""
  /\ UNCHANGED <<retries, timeout, _portal, peer, _client, pools, depth, now, ticks>>

\* __aenter__: a new AsyncClient on a RetryTransport replaces self._client.
__aenter__ ==
  /\ Quiet
  /\ Len(pools) < MaxPools
  /\ pools' = Append(pools, "open")
  /\ _client' = Len(pools) + 1
  /\ depth' = depth + 1
  /\ exitedBy' = ""
  /\ call' = IdleCall
  /\ UNCHANGED <<retries, timeout, peer, now, ticks>>

\* `async with client:` calls __aenter__.
aenter == __aenter__ /\ UNCHANGED _portal

\* A pool released only when the body ended normally (mutant of aexit).
aexit_LeakOnError(exc) ==
  /\ Quiet
  /\ depth > 0
  /\ exc = "none" \/ (IsError(call.result) /\ call.result.kind = exc)
  /\ IF _client # 0 /\ exc = "none"
     THEN /\ pools' = [pools EXCEPT ![_client] = "closed"]
          /\ _client' = 0
     ELSE UNCHANGED <<pools, _client>>
  /\ depth' = depth - 1
  /\ exitedBy' = exc
  /\ call' = IdleCall
  /\ UNCHANGED <<retries, timeout, _portal, peer, now, ticks>>

\* An __aexit__ that leaves the pool open and referenced (mutant of __aexit__).
__aexit___NoClose(exc) ==
  /\ Quiet
  /\ depth > 0
  /\ exc = "none" \/ (IsError(call.result) /\ call.result.kind = exc)
  /\ depth' = depth - 1
  /\ exitedBy' = exc
  /\ call' = IdleCall
  /\ UNCHANGED <<retries, timeout, peer, now, ticks, pools, _client>>

\* An __aexit__ that closes the pool and keeps the reference to it (mutant of
\* __aexit__).
__aexit___KeepReference(exc) ==
  /\ Quiet
  /\ depth > 0
  /\ exc = "none" \/ (IsError(call.result) /\ call.result.kind = exc)
  /\ IF _client # 0
     THEN pools' = [pools EXCEPT ![_client] = "closed"]
     ELSE UNCHANGED pools
  /\ depth' = depth - 1
  /\ exitedBy' = exc
  /\ call' = IdleCall
  /\ UNCHANGED <<retries, timeout, peer, now, ticks, _client>>

\* __aexit__(exc_type, exc_val, exc_tb), called when the body of a with-block
\* ends, normally (exc = "none") or by the exception the last call of the body
\* raised.  __aexit__ returns None: the exception goes on to the caller.
__aexit__(exc) ==
  /\ Quiet
  /\ depth > 0
  /\ exc = "none" \/ (IsError(call.result) /\ call.result.kind = exc)
  /\ IF _client # 0
     THEN /\ pools' = [pools EXCEPT ![_client] = "closed"]
          /\ _client' = 0
     ELSE UNCHANGED <<pools, _client>>
  /\ depth' = depth - 1
  /\ exitedBy' = exc
  /\ call' = IdleCall
  /\ UNCHANGED <<retries, timeout, peer, now, ticks>>

\* `async with client:` calls __aexit__ when its body ends.
aexit(exc) == __aexit__(exc) /\ UNCHANGED _portal

ExitPaths ==
  {"none", "ValueError", "RuntimeError", "HTTPStatusError", "JSONDecodeError",
   "ValidationError", "ConnectError", "ReadTimeout", "RemoteProtocolError",
   "DecodingError"}

\* The clock reaches the next month.
Tick ==
  /\ ticks < MaxTicks
  /\ ticks' = ticks + 1
  /\ now' = NextMonth(now)
  /\ UNCHANGED <<retries, timeout, _portal, peer, _client, pools, depth, exitedBy, call>>

\* ------------------------------------------------- the retry loop
\* One pass of RetryTransport's loop: the request is sent, the remote or the
\* network answers with o, and the transport either goes round again or hands
\* the outcome to _make_request, which finishes the call (lines 110-111) and
\* the endpoint method after it.
Attempt(o) ==
  /\ call.pc = "send"
  /\ call' =
       IF ShouldRetry(call.method, call.attempts_made, retries, o)
       THEN [call EXCEPT !.pc = "backoff", !.nsent = @ + 1, !.last = o]
       ELSE [call EXCEPT !.pc = "done", !.nsent = @ + 1, !.last = o,
                         !.result = Complete(call.op, o)]
  /\ UNCHANGED <<retries, timeout, _portal, peer, _client, pools, depth, exitedBy, now, ticks>>

\* The remote answers a list method with 200 and the JSON list `data`; the
\* transport returns the response (a 200 is never retried) and the method
\* builds its result from the list.
AttemptList(data) ==
  /\ call.pc = "send"
  /\ call.op \in ListOps
  /\ call' = [call EXCEPT !.pc = "done", !.nsent = @ + 1,
                          !.last = Resp(200, IF IsError(ListResult(data))
                                             THEN "json_other" ELSE "json"),
                          !.data = data,
                          !.result = ListResult(data),
                          !.items = ListItems(data, call.args.sort_order)]
  /\ UNCHANGED <<retries, timeout, _portal, peer, _client, pools, depth, exitedBy, now, ticks>>

\* The request is sent and the remote never answers it.  The AsyncClient was
\* built with timeout=self.timeout: with a timeout the attempt ends in a
\* timeout exception, which the transport treats like any other outcome; with
\* None nothing ends the wait, and the call stays blocked in its await.
NoAnswer ==
  /\ call.pc = "send"
  /\ call' =
       IF timeout = {}
       THEN [call EXCEPT !.pc = "blocked", !.nsent = @ + 1]
       ELSE IF ShouldRetry(call.method, call.attempts_made, retries, Exc("ReadTimeout"))
       THEN [call EXCEPT !.pc = "backoff", !.nsent = @ + 1, !.last = Exc("ReadTimeout")]
       ELSE [call EXCEPT !.pc = "done", !.nsent = @ + 1, !.last = Exc("ReadTimeout"),
                         !.result = Complete(call.op, Exc("ReadTimeout"))]
  /\ UNCHANGED <<retries, timeout, _portal, peer, _client, pools, depth, exitedBy, now, ticks>>

\* One Retry object counts the attempts of every request of the transport
\* (mutant of Backoff).
Backoff_SharedRetry ==
  /\ call.pc = "backoff"
  /\ call' = [call EXCEPT !.pc = "send", !.attempts_made = @ + 1]
  /\ peer' = IF peer.pc \in {"send", "backoff"}
             THEN [peer EXCEPT !.attempts_made = @ + 1] ELSE peer
  /\ UNCHANGED <<retries, timeout, _portal, _client, pools, depth, exitedBy, now, ticks>>

\* The incremented Retry is dropped (mutant of Backoff).
Backoff_NoIncrement ==
  /\ call.pc = "backoff"
  /\ call' = [call EXCEPT !.pc = "send"]
  /\ UNCHANGED <<retries, timeout, _portal, peer, _client, pools, depth, exitedBy, now, ticks>>

\* retry.increment() and the sleep before the next attempt.
Backoff ==
  /\ call.pc = "backoff"
  /\ call' = [call EXCEPT !.pc = "send", !.attempts_made = @ + 1]
  /\ UNCHANGED <<retries, timeout, _portal, peer, _client, pools, depth, exitedBy, now, ticks>>

\* The event loop suspends the running task at its await and resumes the
\* other task: the two calls change places.
Switch ==
  /\ call' = peer
  /\ peer' = call
  /\ call # peer
  /\ UNCHANGED <<retries, timeout, _portal, _client, pools, depth, exitedBy, now, ticks>>

\* The caller takes the value the call returned, or handles the exception it
\* raised, and goes on.
Return ==
  /\ call.pc = "done"
  /\ call' = IdleCall
  /\ UNCHANGED <<retries, timeout, _portal, peer, _client, pools, depth, exitedBy, now, ticks>>

\* ------------------------------------------------------- endpoints
\* get, post, put, delete: _make_request with the caller's path, here "/test";
\* post and put pass the caller's JSON body on, get and delete pass none.
helper(method) ==
  /\ Ready
  /\ call' = WithJson(
               _make_request(CASE method = "GET" -> "get" [] method = "POST" -> "post"
                               [] method = "PUT" -> "put" [] OTHER -> "delete",
                             NoArgs, method, <<Lit("/test")>>, EmptyDict),
               IF method \in {"POST", "PUT"} THEN {"body"} ELSE {})
  /\ exitedBy' = ""
  /\ UNCHANGED <<retries, timeout, _portal, peer, _client, pools, depth, now, ticks>>

\* get(path, params) with a path template and parameters of the caller.
get(path, params) ==
  /\ Ready
  /\ call' = _make_request("get", NoArgs, "GET", path, params)
  /\ exitedBy' = ""
  /\ UNCHANGED <<retries, timeout, _portal, peer, _client, pools, depth, now, ticks>>

get_basho(basho_id) ==
  /\ Ready
  /\ LET args == [NoArgs EXCEPT !.basho_id = {basho_id}]
         year == Val(ParseInt(Prefix(basho_id, 4)))
         month == Val(ParseInt(Suffix(basho_id, 4)))
     IN call' =
          IF ~(isdigit(basho_id) /\ Len(basho_id) = 6)
          THEN Fail("get_basho", args, Raised("ValueError", MsgYYYYMM))
          ELSE IF ~DateOk(year, month)
          THEN Fail("get_basho", args, Raised("ValueError", MsgDatetime))
          ELSE IF IsFuture(year, month, now)
          THEN Fail("get_basho", args, Raised("ValueError", MsgFutureBasho))
          ELSE _make_request("get_basho", args, "GET",
                             <<Lit("/basho/" \o Str(basho_id))>>, EmptyDict)
  /\ exitedBy' = ""
  /\ UNCHANGED <<retries, timeout, _portal, peer, _client, pools, depth, now, ticks>>

\* Lines 315-320 and 375-380: the year and month get_banzuke and get_torikumi
\* read from the ID; {} when int() or datetime() raises ValueError.
basho_date(basho_id) ==
  LET year == ParseInt(Prefix(basho_id, 4))
      month == ParseInt(Suffix(basho_id, 4))
  IN IF year = {} \/ month = {} THEN {}
     ELSE IF ~DateOk(Val(year), Val(month)) THEN {}
     ELSE {[year |-> Val(year), month |-> Val(month)]}

\* The division list matched without regard to case (mutant of valid_divisions).
valid_divisions_AnyCase ==
  {"Makuuchi", "Juryo", "Makushita", "Sandanme", "Jonidan", "Jonokuchi",
   "makuuchi", "juryo", "makushita", "sandanme", "jonidan", "jonokuchi"}

valid_divisions ==
  {"Makuuchi", "Juryo", "Makushita", "Sandanme", "Jonidan", "Jonokuchi"}

\* A day range that starts at 0 (mutant of valid_day).
valid_day_FromZero(day) == 0 <= day /\ day <= 15

\* Line 399: `1 <= day <= 15`.
valid_day(day) == 1 <= day /\ day <= 15

get_banzuke(basho_id, division) ==
  /\ Ready
  /\ LET args == [NoArgs EXCEPT !.basho_id = {basho_id}, !.division = {division}]
         date == basho_date(basho_id)
     IN call' =
          IF date = {}
          THEN Fail("get_banzuke", args, Raised("ValueError", MsgYYYYMM))
          ELSE IF IsFuture(Val(date).year, Val(date).month, now)
          THEN Fail("get_banzuke", args, Raised("ValueError", MsgFetchFuture))
          ELSE IF division \notin valid_divisions
          THEN Fail("get_banzuke", args, Raised("ValueError", MsgInvalidDivision))
          ELSE _make_request("get_banzuke", args, "GET",
                 <<Lit("/basho/"), Ph("basho_id"), Lit("/banzuke/"), Ph("division")>>,
                 [basho_id |-> Str(basho_id), division |-> division])
  /\ exitedBy' = ""
  /\ UNCHANGED <<retries, timeout, _portal, peer, _client, pools, depth, now, ticks>>

get_torikumi(basho_id, division, day) ==
  /\ Ready
  /\ LET args == [NoArgs EXCEPT !.basho_id = {basho_id}, !.division = {division},
                                !.day = {day}]
         date == basho_date(basho_id)
     IN call' =
          IF date = {}
          THEN Fail("get_torikumi", args, Raised("ValueError", MsgYYYYMM))
          ELSE IF IsFuture(Val(date).year, Val(date).month, now)
          THEN Fail("get_torikumi", args, Raised("ValueError", MsgFetchFuture))
          ELSE IF division \notin valid_divisions
          THEN Fail("get_torikumi", args, Raised("ValueError", MsgInvalidDivision))
          ELSE IF ~valid_day(day)
          THEN Fail("get_torikumi", args, Raised("ValueError", MsgDay))
          ELSE _make_request("get_torikumi", args, "GET",
                 <<Lit("/basho/"), Ph("basho_id"), Lit("/torikumi/"), Ph("division"),
                   Lit("/"), Ph("day")>>,
                 [basho_id |-> Str(basho_id), division |-> division,
                  day |-> ToString(day)])
  /\ exitedBy' = ""
  /\ UNCHANGED <<retries, timeout, _portal, peer, _client, pools, depth, now, ticks>>

\* `if basho_id and not (basho_id.isdigit() and len(basho_id) == 6)`
BadOptionalBasho(basho_id) ==
  TruthyStr(basho_id) /\ ~(isdigit(Val(basho_id)) /\ Len(Val(basho_id)) = 6)

\* `if basho_id: params["bashoId"] = basho_id`
BashoParam(basho_id) ==
  IF TruthyStr(basho_id) THEN "bashoId" :> Str(Val(basho_id)) ELSE EmptyDict

\* `if rikishi_id: params["rikishiId"] = rikishi_id`
RikishiParam(rikishi_id) ==
  IF TruthyInt(rikishi_id) THEN "rikishiId" :> ToString(Val(rikishi_id)) ELSE EmptyDict

get_rikishi_matches(rikishi_id, basho_id) ==
  /\ Ready
  /\ LET args == [NoArgs EXCEPT !.rikishi_id = {rikishi_id}, !.basho_id = basho_id]
     IN call' =
          IF rikishi_id <= 0
          THEN Fail("get_rikishi_matches", args, Raised("ValueError", MsgRikishiId))
          ELSE IF BadOptionalBasho(basho_id)
          THEN Fail("get_rikishi_matches", args, Raised("ValueError", MsgYYYYMM))
          ELSE _make_request("get_rikishi_matches", args, "GET",
                 <<Lit("/rikishi/"), Ph("rikishi_id"), Lit("/matches")>>,
                 ("rikishi_id" :> ToString(rikishi_id)) @@ BashoParam(basho_id))
  /\ exitedBy' = ""
  /\ UNCHANGED <<retries, timeout, _portal, peer, _client, pools, depth, now, ticks>>

get_rikishi_opponent_matches(rikishi_id, opponent_id, basho_id) ==
  /\ Ready
  /\ LET args == [NoArgs EXCEPT !.rikishi_id = {rikishi_id},
                                !.opponent_id = {opponent_id}, !.basho_id = basho_id]
     IN call' =
          IF rikishi_id <= 0
          THEN Fail("get_rikishi_opponent_matches", args,
                    Raised("ValueError", MsgRikishiId))
          ELSE IF opponent_id <= 0
          THEN Fail("get_rikishi_opponent_matches", args,
                    Raised("ValueError", MsgOpponentId))
          ELSE IF BadOptionalBasho(basho_id)
          THEN Fail("get_rikishi_opponent_matches", args,
                    Raised("ValueError", MsgYYYYMM))
          ELSE _make_request("get_rikishi_opponent_matches", args, "GET",
                 <<Lit("/rikishi/"), Ph("rikishi_id"), Lit("/matches/"),
                   Ph("opponent_id")>>,
                 ("rikishi_id" :> ToString(rikishi_id))
                   @@ ("opponent_id" :> ToString(opponent_id)) @@ BashoParam(basho_id))
  /\ exitedBy' = ""
  /\ UNCHANGED <<retries, timeout, _portal, peer, _client, pools, depth, now, ticks>>

\* The validation without its first check (mutant of History).
History_NoEitherCheck(op, path, basho_id, rikishi_id, sort_order) ==
  LET args == [NoArgs EXCEPT !.basho_id = basho_id, !.rikishi_id = rikishi_id,
                             !.sort_order = sort_order]
  IN IF BadOptionalBasho(basho_id)
     THEN Fail(op, args, Raised("ValueError", MsgYYYYMM))
     ELSE IF rikishi_id # {} /\ Val(rikishi_id) <= 0
     THEN Fail(op, args, Raised("ValueError", MsgRikishiId))
     ELSE IF sort_order # {} /\ sort_order \notin {{"asc"}, {"desc"}}
     THEN Fail(op, args, Raised("ValueError", MsgSortOrder))
     ELSE _make_request(op, args, "GET", <<Lit(path)>>,
                        BashoParam(basho_id) @@ RikishiParam(rikishi_id))

\* get_measurements, get_ranks and get_shikonas validate alike and differ in
\* the path (and in the record type of the result).
History(op, path, basho_id, rikishi_id, sort_order) ==
  LET args == [NoArgs EXCEPT !.basho_id = basho_id, !.rikishi_id = rikishi_id,
                             !.sort_order = sort_order]
  IN IF ~TruthyStr(basho_id) /\ ~TruthyInt(rikishi_id)
     THEN Fail(op, args, Raised("ValueError", MsgEither))
     ELSE IF BadOptionalBasho(basho_id)
     THEN Fail(op, args, Raised("ValueError", MsgYYYYMM))
     ELSE IF rikishi_id # {} /\ Val(rikishi_id) <= 0
     THEN Fail(op, args, Raised("ValueError", MsgRikishiId))
     ELSE IF sort_order # {} /\ sort_order \notin {{"asc"}, {"desc"}}
     THEN Fail(op, args, Raised("ValueError", MsgSortOrder))
     ELSE _make_request(op, args, "GET", <<Lit(path)>>,
                        BashoParam(basho_id) @@ RikishiParam(rikishi_id))

get_measurements(basho_id, rikishi_id, sort_order) ==
  /\ Ready
  /\ call' = History("get_measurements", "/measurements", basho_id, rikishi_id,
                     sort_order)
  /\ exitedBy' = ""
  /\ UNCHANGED <<retries, timeout, _portal, peer, _client, pools, depth, now, ticks>>

get_ranks(basho_id, rikishi_id, sort_order) ==
  /\ Ready
  /\ call' = History("get_ranks", "/ranks", basho_id, rikishi_id, sort_order)
  /\ exitedBy' = ""
  /\ UNCHANGED <<retries, timeout, _portal, peer, _client, pools, depth, now, ticks>>

get_shikonas(basho_id, rikishi_id, sort_order) ==
  /\ Ready
  /\ call' = History("get_shikonas", "/shikonas", basho_id, rikishi_id, sort_order)
  /\ exitedBy' = ""
  /\ UNCHANGED <<retries, timeout, _portal, peer, _client, pools, depth, now, ticks>>

\* ------------------------------------------------------------ rikishi
\* The IDs get_rikishi is called with (strings, put into the path as they are).
RikishiIdStrs == {"1", "1511"}

\* The remote's names of the fields of a rikishi and the record's names for them.
RikishiAliases ==
  ("id" :> "id") @@ ("heya" :> "heya") @@ ("shikonaEn" :> "shikona_en")
    @@ ("shikonaJp" :> "shikona_jp") @@ ("currentRank" :> "current_rank")
    @@ ("sumodbId" :> "sumodb_id") @@ ("nskId" :> "nsk_id")

\* The fields a rikishi document must have; the others default to None.
RikishiRequired == {"id", "heya", "shikonaEn", "shikonaJp", "currentRank"}

\* Documents the remote answers GET /rikishi/<id> with: every field, the
\* optional fields left out, and a required field missing.
RikishiDocs ==
  {[id |-> 1511, heya |-> "Isegahama", shikonaEn |-> "Terunofuji Haruo",
    shikonaJp |-> "Terunofuji (jp)", currentRank |-> "Yokozuna 1 East",
    sumodbId |-> 11927, nskId |-> 3321],
   [id |-> 1, heya |-> "Miyagino", shikonaEn |-> "Hakuho Sho",
    shikonaJp |-> "Hakuho (jp)", currentRank |-> "Maegashira 1 West"],
   [id |-> 1, heya |-> "Miyagino", shikonaJp |-> "Hakuho (jp)", sumodbId |-> 0]}

\* Rikishi.model_validate(data): the record, one field per alias, with the
\* document's value where the document has the field and None where it has not.
RikishiRecord(doc) ==
  [f \in {RikishiAliases[k] : k \in DOMAIN RikishiAliases} |->
     LET k == CHOOSE k \in DOMAIN RikishiAliases : RikishiAliases[k] = f
     IN IF k \in DOMAIN doc THEN doc[k] ELSE "None"]

Rikishi_model_validate(doc) ==
  IF RikishiRequired \subseteq DOMAIN doc THEN Returned("json")
  ELSE Raised("ValidationError", <<"validation", "error">>)

\* The path of get_rikishi_stats (mutant of get_rikishi).
get_rikishi_StatsPath(rikishi_id) ==
  /\ Ready
  /\ call' = _make_request("get_rikishi", [NoArgs EXCEPT !.rikishi_id = {rikishi_id}],
                           "GET",
                           <<Lit("/rikishi/"), Ph("rikishi_id"), Lit("/stats")>>,
                           [rikishi_id |-> rikishi_id])
  /\ exitedBy' = ""
  /\ UNCHANGED <<retries, timeout, _portal, peer, _client, pools, depth, now, ticks>>

get_rikishi(rikishi_id) ==
  /\ Ready
  /\ call' = _make_request("get_rikishi", [NoArgs EXCEPT !.rikishi_id = {rikishi_id}],
                           "GET", <<Lit("/rikishi/"), Ph("rikishi_id")>>,
                           [rikishi_id |-> rikishi_id])
  /\ exitedBy' = ""
  /\ UNCHANGED <<retries, timeout, _portal, peer, _client, pools, depth, now, ticks>>

get_rikishi_stats(rikishi_id) ==
  /\ Ready
  /\ call' = _make_request("get_rikishi_stats",
                           [NoArgs EXCEPT !.rikishi_id = {rikishi_id}], "GET",
                           <<Lit("/rikishi/"), Ph("rikishi_id"), Lit("/stats")>>,
                           [rikishi_id |-> rikishi_id])
  /\ exitedBy' = ""
  /\ UNCHANGED <<retries, timeout, _portal, peer, _client, pools, depth, now, ticks>>

\* The remote answers get_rikishi with 200 and the JSON document doc; the
\* method returns Rikishi.model_validate(doc).
AttemptRikishi(doc) ==
  /\ call.pc = "send"
  /\ call.op = "get_rikishi"
  /\ call' = [call EXCEPT !.pc = "done", !.nsent = @ + 1,
                          !.last = Resp(200, IF IsError(Rikishi_model_validate(doc))
                                             THEN "json_other" ELSE "json"),
                          !.data = <<doc>>,
                          !.result = Rikishi_model_validate(doc),
                          !.items = IF IsError(Rikishi_model_validate(doc)) THEN <<>>
                                    ELSE <<RikishiRecord(doc)>>]
  /\ UNCHANGED <<retries, timeout, _portal, peer, _client, pools, depth, exitedBy, now, ticks>>

\* ------------------------------------------- torikumi and banzuke records
\* models/torikumi.py, class Torikumi: the remote's names of the fields and
\* the record's names for them.  Every field is required; a key of the data
\* that is no field of the class is ignored.
TorikumiAliases ==
  ("date" :> "date") @@ ("location" :> "location") @@ ("startDate" :> "start_date")
    @@ ("endDate" :> "end_date") @@ ("yusho" :> "yusho")
    @@ ("specialPrizes" :> "special_prizes") @@ ("torikumi" :> "matches")

\* A torikumi document of a day without matches.
TorikumiBase ==
  ("date" :> "202301") @@ ("location" :> "Tokyo") @@ ("startDate" :> "2023-01-08")
    @@ ("endDate" :> "2023-01-22") @@ ("yusho" :> "[]") @@ ("specialPrizes" :> "[]")
    @@ ("torikumi" :> "[]")

\* Documents the remote answers the torikumi request with: without bashoId,
\* division and day; with a bashoId, a division and a day of its own; and
\* without its location.
TorikumiDocs ==
  {TorikumiBase,
   ("bashoId" :> "202303") @@ ("division" :> "Juryo") @@ ("day" :> "9") @@ TorikumiBase,
   [k \in DOMAIN TorikumiBase \ {"location"} |-> TorikumiBase[k]]}

\* Lines 411-416 of get_torikumi: bashoId from date when it is absent, then
\* the caller's division and day.
stamp_torikumi(doc, division, day) ==
  ("division" :> division) @@ ("day" :> ToString(day))
    @@ (IF "bashoId" \notin DOMAIN doc /\ "date" \in DOMAIN doc
        THEN "bashoId" :> doc["date"] ELSE EmptyDict)
    @@ doc

Torikumi_model_validate(data) ==
  IF DOMAIN TorikumiAliases \subseteq DOMAIN data THEN Returned("json")
  ELSE Raised("ValidationError", <<"validation", "error">>)

\* The Torikumi record of the data: one field per field of the class.
TorikumiRecord(data) ==
  [f \in {TorikumiAliases[k] : k \in DOMAIN TorikumiAliases} |->
     data[CHOOSE k \in DOMAIN TorikumiAliases : TorikumiAliases[k] = f]]

\* The remote answers get_torikumi with 200 and the JSON document doc; the
\* method stamps the document and returns Torikumi.model_validate of it.
AttemptTorikumi(doc) ==
  /\ call.pc = "send"
  /\ call.op = "get_torikumi"
  /\ LET data == stamp_torikumi(doc, Val(call.args.division), Val(call.args.day))
         r == Torikumi_model_validate(data)
     IN call' = [call EXCEPT !.pc = "done", !.nsent = @ + 1,
                             !.last = Resp(200, IF IsError(r) THEN "json_other"
                                                ELSE "json"),
                             !.data = <<doc>>,
                             !.result = r,
                             !.items = IF IsError(r) THEN <<>>
                                       ELSE <<TorikumiRecord(data)>>]
  /\ UNCHANGED <<retries, timeout, _portal, peer, _client, pools, depth, exitedBy, now, ticks>>

\* A wrestler of a banzuke document, without a record of matches.
Wrestler(id) == ("rikishiID" :> id) @@ ("rank" :> "Maegashira")

\* Documents the remote answers the banzuke request with: without bashoId;
\* with a bashoId of its own and a wrestler that has a side already; and
\* without its west side.
BanzukeDocs ==
  {[division |-> "Makuuchi", east |-> <<Wrestler("1"), Wrestler("2")>>,
    west |-> <<Wrestler("3")>>],
   [bashoId |-> "199901", division |-> "Makuuchi",
    east |-> <<("side" :> "West") @@ Wrestler("1")>>, west |-> <<Wrestler("3")>>],
   [division |-> "Makuuchi", east |-> <<Wrestler("1")>>]}

\* Lines 341-345: every wrestler of the side gets side.title().
stamp_side(doc, side, title) ==
  IF side \in DOMAIN doc
  THEN [i \in DOMAIN doc[side] |-> ("side" :> title) @@ doc[side][i]]
  ELSE <<>>

\* Lines 340-356 of get_banzuke for wrestlers without a record: the sides,
\* then the requested basho_id.
stamp_banzuke(doc, basho_id) ==
  [k \in DOMAIN doc \cup {"bashoId"} |->
     CASE k = "bashoId" -> Str(basho_id)
       [] k = "east" -> stamp_side(doc, "east", "East")
       [] k = "west" -> stamp_side(doc, "west", "West")
       [] OTHER -> doc[k]]

\* models/banzuke.py, class Banzuke: bashoId, division, east and west are
\* required, and every wrestler has a side of East or West.
Banzuke_model_validate(data) ==
  IF /\ {"bashoId", "division", "east", "west"} \subseteq DOMAIN data
     /\ data["division"] \in valid_divisions
     /\ \A side \in {"east", "west"} : \A i \in DOMAIN data[side] :
          /\ "side" \in DOMAIN data[side][i]
          /\ data[side][i]["side"] \in {"East", "West"}
  THEN Returned("json")
  ELSE Raised("ValidationError", <<"validation", "error">>)

\* The Banzuke record of the data.
BanzukeRecord(data) ==
  [basho_id |-> data["bashoId"], division |-> data["division"],
   east |-> [i \in DOMAIN data["east"] |->
               [side |-> data["east"][i]["side"],
                rikishi_id |-> data["east"][i]["rikishiID"]]],
   west |-> [i \in DOMAIN data["west"] |->
               [side |-> data["west"][i]["side"],
                rikishi_id |-> data["west"][i]["rikishiID"]]]]

\* The remote answers get_banzuke with 200 and the JSON document doc; the
\* method stamps the document and returns Banzuke.model_validate of it.
AttemptBanzuke(doc) ==
  /\ call.pc = "send"
  /\ call.op = "get_banzuke"
  /\ LET data == stamp_banzuke(doc, Val(call.args.basho_id))
         r == Banzuke_model_validate(data)
     IN call' = [call EXCEPT !.pc = "done", !.nsent = @ + 1,
                             !.last = Resp(200, IF IsError(r) THEN "json_other"
                                                ELSE "json"),
                             !.data = <<doc>>,
                             !.result = r,
                             !.items = IF IsError(r) THEN <<>>
                                       ELSE <<BanzukeRecord(data)>>]
  /\ UNCHANGED <<retries, timeout, _portal, peer, _client, pools, depth, exitedBy, now, ticks>>

\* ------------------------------------------------- the synchronous client
MsgSyncContext ==
  <<"SumoSyncClient", "must", "be", "used", "as", "a", "context", "manager.">>

\* SumoSyncClient.__enter__: the blocking portal is started and kept in
\* _portal, and the portal runs the async client's __aenter__.
sync_enter ==
  /\ _portal = 0
  /\ _portal' = 1
  /\ __aenter__

\* SumoSyncClient.__exit__(exc_type, exc_val, exc_tb): the portal runs the
\* async client's __aexit__ with the exception details, the portal is
\* stopped and _portal is None again.  __exit__ returns None: the exception
\* goes on to the caller.
sync_exit(exc) ==
  /\ _portal # 0
  /\ _portal' = 0
  /\ __aexit__(exc)

\* A method of SumoSyncClient: without a portal it raises; with one, the
\* portal runs the async method of the same name and the caller waits for it.
sync_get_rikishi(rikishi_id) ==
  IF _portal = 0
  THEN /\ Ready
       /\ call' = Fail("get_rikishi", [NoArgs EXCEPT !.rikishi_id = {rikishi_id}],
                       Raised("RuntimeError", MsgSyncContext))
       /\ exitedBy' = ""
       /\ UNCHANGED <<retries, timeout, _portal, peer, _client, pools, depth, now, ticks>>
  ELSE get_rikishi(rikishi_id)

sync_get_basho(basho_id) ==
  IF _portal = 0
  THEN /\ Ready
       /\ call' = Fail("get_basho", [NoArgs EXCEPT !.basho_id = {basho_id}],
                       Raised("RuntimeError", MsgSyncContext))
       /\ exitedBy' = ""
       /\ UNCHANGED <<retries, timeout, _portal, peer, _client, pools, depth, now, ticks>>
  ELSE get_basho(basho_id)

\* ------------------------------------------------------- paged endpoints
\* The list fetched with a POST that carries the filters as its body (mutant
\* of get_rikishis).
get_rikishis_Post(f, limit, skip) ==
  /\ Ready
  /\ call' = WithJson(_make_request("get_rikishis",
                                    [NoArgs EXCEPT !.filters = {f}, !.limit = {limit},
                                                   !.skip = {skip}],
                                    "POST", <<Lit("/rikishis")>>, EmptyDict),
                      {"body"})
  /\ exitedBy' = ""
  /\ UNCHANGED <<retries, timeout, _portal, peer, _client, pools, depth, now, ticks>>

\* Lines 184-201: the query of get_rikishis.  limit and skip go in as given.
rikishis_params(f, limit, skip) ==
  ("limit" :> ToString(limit)) @@ ("skip" :> ToString(skip))
    @@ ("measurements" :> lower(f.measurements)) @@ ("ranks" :> lower(f.ranks))
    @@ ("shikonas" :> lower(f.shikonas))
    @@ (IF TruthyText(f.shikona_en) THEN "shikonaEn" :> Val(f.shikona_en) ELSE EmptyDict)
    @@ (IF TruthyText(f.heya) THEN "heya" :> Val(f.heya) ELSE EmptyDict)
    @@ (IF TruthyInt(f.sumodb_id) THEN "sumodbId" :> ToString(Val(f.sumodb_id))
        ELSE EmptyDict)
    @@ (IF TruthyInt(f.nsk_id) THEN "nskId" :> ToString(Val(f.nsk_id)) ELSE EmptyDict)
    @@ (IF f.intai # {} THEN "intai" :> lower(Val(f.intai)) ELSE EmptyDict)

get_rikishis(f, limit, skip) ==
  /\ Ready
  /\ call' = _make_request("get_rikishis",
                           [NoArgs EXCEPT !.filters = {f}, !.limit = {limit},
                                          !.skip = {skip}],
                           "GET", <<Lit("/rikishis")>>, rikishis_params(f, limit, skip))
  /\ exitedBy' = ""
  /\ UNCHANGED <<retries, timeout, _portal, peer, _client, pools, depth, now, ticks>>

\* Lines 457-465 and 508-514: the query of the kimarite endpoints.
kimarite_params(sort_field, sort_order, limit, skip) ==
  (IF TruthyText(sort_field) THEN "sortField" :> Val(sort_field) ELSE EmptyDict)
    @@ (IF TruthyText(sort_order) THEN "sortOrder" :> Val(sort_order) ELSE EmptyDict)
    @@ (IF limit # {} THEN "limit" :> ToString(Val(limit)) ELSE EmptyDict)
    @@ (IF skip # {} THEN "skip" :> ToString(Val(skip)) ELSE EmptyDict)

get_kimarite(sort_field, sort_order, limit, skip) ==
  /\ Ready
  /\ LET args == [NoArgs EXCEPT !.sort_field = sort_field, !.sort_order = sort_order,
                                !.limit = limit, !.skip = skip]
     IN call' =
          IF TruthyText(sort_field)
             /\ Val(sort_field) \notin {"count", "kimarite", "lastUsage"}
          THEN Fail("get_kimarite", args, Raised("ValueError", MsgSortField))
          ELSE IF TruthyText(sort_order) /\ Val(sort_order) \notin {"asc", "desc"}
          THEN Fail("get_kimarite", args, Raised("ValueError", MsgSortOrder))
          ELSE IF limit # {} /\ Val(limit) <= 0
          THEN Fail("get_kimarite", args, Raised("ValueError", MsgLimitPositive))
          ELSE IF skip = {}
          THEN Fail("get_kimarite", args, Raised("TypeError", MsgNoneCompare))
          ELSE IF Val(skip) < 0
          THEN Fail("get_kimarite", args, Raised("ValueError", MsgSkip))
          ELSE _make_request("get_kimarite", args, "GET", <<Lit("/kimarite")>>,
                             kimarite_params(sort_field, sort_order, limit, skip))
  /\ exitedBy' = ""
  /\ UNCHANGED <<retries, timeout, _portal, peer, _client, pools, depth, now, ticks>>

get_kimarite_matches(kimarite, sort_order, limit, skip) ==
  /\ Ready
  /\ LET args == [NoArgs EXCEPT !.kimarite = {kimarite}, !.sort_order = sort_order,
                                !.limit = limit, !.skip = skip]
     IN call' =
          IF kimarite = ""
          THEN Fail("get_kimarite_matches", args, Raised("ValueError", MsgKimariteEmpty))
          ELSE IF TruthyText(sort_order) /\ Val(sort_order) \notin {"asc", "desc"}
          THEN Fail("get_kimarite_matches", args, Raised("ValueError", MsgSortOrder))
          ELSE IF limit # {} /\ Val(limit) <= 0
          THEN Fail("get_kimarite_matches", args, Raised("ValueError", MsgLimitPositive))
          ELSE IF limit # {} /\ Val(limit) > 1000
          THEN Fail("get_kimarite_matches", args, Raised("ValueError", MsgLimitCap))
          ELSE IF skip = {}
          THEN Fail("get_kimarite_matches", args, Raised("TypeError", MsgNoneCompare))
          ELSE IF Val(skip) < 0
          THEN Fail("get_kimarite_matches", args, Raised("ValueError", MsgSkip))
          ELSE _make_request("get_kimarite_matches", args, "GET",
                 <<Lit("/kimarite/"), Ph("kimarite")>>,
                 ("kimarite" :> kimarite)
                   @@ kimarite_params({}, sort_order, limit, skip))
  /\ exitedBy' = ""
  /\ UNCHANGED <<retries, timeout, _portal, peer, _client, pools, depth, now, ticks>>

\* ------------------------------------------------------ specification
Next ==
  \/ aenter
  \/ \E exc \in ExitPaths : aexit(exc)
  \/ Tick
  \/ \E o \in Outcomes : Attempt(o)
  \/ Backoff
  \/ Return
  \/ \E method \in Methods : helper(method)
  \/ \E b \in BashoIds : get_basho(b)
  \/ \E b \in BashoIds, d \in Divisions : get_banzuke(b, d)
  \/ \E b \in BashoIds, d \in Divisions, day \in Days : get_torikumi(b, d, day)
  \/ \E r \in RikishiIds, b \in OptBashoIds : get_rikishi_matches(r, b)
  \/ \E r \in RikishiIds, o \in RikishiIds, b \in OptBashoIds :
       get_rikishi_opponent_matches(r, o, b)
  \/ \E b \in OptBashoIds, r \in OptRikishiIds, s \in SortOrders :
       get_measurements(b, r, s)
  \/ \E b \in OptBashoIds, r \in OptRikishiIds, s \in SortOrders : get_ranks(b, r, s)
  \/ \E b \in OptBashoIds, r \in OptRikishiIds, s \in SortOrders :
       get_shikonas(b, r, s)
  \/ \E f \in RikishiFilters, l \in Limits, k \in Skips : get_rikishis(f, l, k)
  \/ \E sf \in SortFields, s \in SortOrders, l \in OptLimits, k \in OptSkips :
       get_kimarite(sf, s, l, k)
  \/ \E km \in Kimarites, s \in SortOrders, l \in OptLimits, k \in OptSkips :
       get_kimarite_matches(km, s, l, k)
  \/ \E data \in RecordLists : AttemptList(data)
  \/ NoAnswer
  \/ \E id \in RikishiIdStrs : get_rikishi(id)
  \/ \E id \in RikishiIdStrs : get_rikishi_stats(id)
  \/ \E doc \in RikishiDocs : AttemptRikishi(doc)
  \/ Switch
  \/ \E v \in OptVerifySsl : SumoClient_init(v)
  \/ sync_enter
  \/ \E exc \in ExitPaths : sync_exit(exc)
  \/ \E id \in RikishiIdStrs : sync_get_rikishi(id)
  \/ \E b \in BashoIds : sync_get_basho(b)
  \/ \E path \in PathTemplates, params \in ParamDicts : get(path, params)
  \/ \E doc \in TorikumiDocs : AttemptTorikumi(doc)
  \/ \E doc \in BanzukeDocs : AttemptBanzuke(doc)

Spec == Init /\ [][Next]_vars

\* The dispatcher and the context on their own: requests made through the
\* generic helpers and get_basho, for every retry budget; the clock stands still.
NextDispatch ==
  \/ aenter
  \/ \E exc \in ExitPaths : aexit(exc)
  \/ \E o \in Outcomes : Attempt(o)
  \/ Backoff
  \/ Return
  \/ \E method \in Methods : helper(method)
  \/ \E b \in BashoIds : get_basho(b)

SpecDispatch == Init /\ [][NextDispatch]_vars

\* The construction of the client, its context and the dispatcher.
NextBuild ==
  \/ \E v \in OptVerifySsl : SumoClient_init(v)
  \/ aenter
  \/ \E exc \in ExitPaths : aexit(exc)
  \/ \E o \in Outcomes : Attempt(o)
  \/ Backoff
  \/ Return
  \/ \E method \in Methods : helper(method)

InitBuild == Init /\ timeout = {}

SpecBuild == InitBuild /\ [][NextBuild]_vars

\* A SumoSyncClient and its caller, for every retry budget of the async
\* client it wraps, constructed with the default timeout.
InitSync == Init /\ timeout = {}

NextSync ==
  \/ sync_enter
  \/ \E exc \in ExitPaths : sync_exit(exc)
  \/ \E id \in RikishiIdStrs : sync_get_rikishi(id)
  \/ \E b \in BashoIds : sync_get_basho(b)
  \/ \E o \in Outcomes : Attempt(o)
  \/ \E doc \in RikishiDocs : AttemptRikishi(doc)
  \/ Backoff
  \/ Return

SpecSync == InitSync /\ [][NextSync]_vars

\* The dispatcher's handling of path and parameters: get with the callers'
\* templates, and the endpoint methods with one, two and three placeholders
\* and with none, on a client constructed with retries=0.
NextParams ==
  \/ aenter
  \/ \E exc \in ExitPaths : aexit(exc)
  \/ \E o \in Outcomes : Attempt(o)
  \/ Return
  \/ \E path \in PathTemplates, params \in ParamDicts : get(path, params)
  \/ \E b \in BashoIds : get_basho(b)
  \/ \E b \in BashoIds, d \in Divisions, day \in Days : get_torikumi(b, d, day)
  \/ \E r \in RikishiIds, b \in OptBashoIds : get_rikishi_matches(r, b)
  \/ \E km \in Kimarites, s \in SortOrders, l \in OptLimits, k \in OptSkips :
       get_kimarite_matches(km, s, l, k)

InitParams == Init /\ retries = 0 /\ timeout = {}

SpecParams == InitParams /\ [][NextParams]_vars

\* get_torikumi and get_banzuke with the documents the remote answers them
\* with, on a client constructed with retries=0.
InitStamp == Init /\ retries = 0 /\ timeout = {}

NextStamp ==
  \/ aenter
  \/ \E exc \in ExitPaths : aexit(exc)
  \/ \E o \in Outcomes : Attempt(o)
  \/ \E doc \in TorikumiDocs : AttemptTorikumi(doc)
  \/ \E doc \in BanzukeDocs : AttemptBanzuke(doc)
  \/ Return
  \/ \E b \in BashoIds, d \in Divisions : get_banzuke(b, d)
  \/ \E b \in BashoIds, d \in Divisions, day \in Days : get_torikumi(b, d, day)

SpecStamp == InitStamp /\ [][NextStamp]_vars

\* The dispatcher with a remote that may stay silent.  The event loop runs
\* every step that can be taken: the transport's loop always goes on, and a
\* caller that can go on does.
NextSilent ==
  \/ NextDispatch
  \/ NoAnswer

SpecSilent == Init /\ [][NextSilent]_vars /\ WF_vars(NextSilent)

\* Every endpoint method, on a client constructed with retries=0 and the
\* default timeout: each request is attempted once.
InitEndpoints == Init /\ retries = 0 /\ timeout = {}

NextEndpoints ==
  \/ aenter
  \/ \E exc \in ExitPaths : aexit(exc)
  \/ Tick
  \/ \E o \in Outcomes : Attempt(o)
  \/ Return
  \/ \E method \in Methods : helper(method)
  \/ \E b \in BashoIds : get_basho(b)
  \/ \E b \in BashoIds, d \in Divisions : get_banzuke(b, d)
  \/ \E b \in BashoIds, d \in Divisions, day \in Days : get_torikumi(b, d, day)
  \/ \E r \in RikishiIds, b \in OptBashoIds : get_rikishi_matches(r, b)
  \/ \E r \in RikishiIds, o \in RikishiIds, b \in OptBashoIds :
       get_rikishi_opponent_matches(r, o, b)
  \/ \E b \in OptBashoIds, r \in OptRikishiIds, s \in SortOrders :
       get_measurements(b, r, s)
  \/ \E b \in OptBashoIds, r \in OptRikishiIds, s \in SortOrders : get_ranks(b, r, s)
  \/ \E b \in OptBashoIds, r \in OptRikishiIds, s \in SortOrders :
       get_shikonas(b, r, s)

SpecEndpoints == InitEndpoints /\ [][NextEndpoints]_vars

\* The endpoint methods that take limit and skip, on a client constructed
\* with retries=0.
NextPaged ==
  \/ aenter
  \/ \E exc \in ExitPaths : aexit(exc)
  \/ \E o \in Outcomes : Attempt(o)
  \/ Return
  \/ \E f \in RikishiFilters, l \in Limits, k \in Skips : get_rikishis(f, l, k)
  \/ \E sf \in SortFields, s \in SortOrders, l \in OptLimits, k \in OptSkips :
       get_kimarite(sf, s, l, k)
  \/ \E km \in Kimarites, s \in SortOrders, l \in OptLimits, k \in OptSkips :
       get_kimarite_matches(km, s, l, k)

SpecPaged == InitEndpoints /\ [][NextPaged]_vars

\* The list methods, with the lists the remote answers them with, on a client
\* constructed with retries=0.
ListBashoIds == {{}, {<<"2", "0", "2", "3", "0", "1">>}, {<<>>}}

NextLists ==
  \/ aenter
  \/ \E exc \in ExitPaths : aexit(exc)
  \/ \E o \in Outcomes : Attempt(o)
  \/ \E data \in RecordLists : AttemptList(data)
  \/ Return
  \/ \E b \in ListBashoIds, r \in OptRikishiIds, s \in SortOrders :
       get_measurements(b, r, s)
  \/ \E b \in ListBashoIds, r \in OptRikishiIds, s \in SortOrders : get_ranks(b, r, s)
  \/ \E b \in ListBashoIds, r \in OptRikishiIds, s \in SortOrders :
       get_shikonas(b, r, s)

SpecLists == InitEndpoints /\ [][NextLists]_vars

\* Endpoint methods of each kind (a single record, path parameters, a list) on
\* the dispatcher, for every retry budget, on a client constructed with the
\* default timeout.
NextPropagate ==
  \/ aenter
  \/ \E exc \in ExitPaths : aexit(exc)
  \/ \E o \in Outcomes : Attempt(o)
  \/ \E data \in RecordLists : AttemptList(data)
  \/ Backoff
  \/ Return
  \/ \E b \in BashoIds : get_basho(b)
  \/ \E b \in BashoIds, d \in Divisions, day \in Days : get_torikumi(b, d, day)
  \/ \E b \in ListBashoIds, r \in OptRikishiIds, s \in SortOrders :
       get_measurements(b, r, s)

InitPropagate == Init /\ timeout = {}

SpecPropagate == InitPropagate /\ [][NextPropagate]_vars

\* The thirteen typed endpoint methods on the dispatcher, for every retry
\* budget, on a client constructed with the default timeout.
InitTyped == Init /\ timeout = {}

NextTyped ==
  \/ aenter
  \/ \E exc \in ExitPaths : aexit(exc)
  \/ \E o \in Outcomes : Attempt(o)
  \/ Backoff
  \/ Return
  \/ \E id \in RikishiIdStrs : get_rikishi(id)
  \/ \E id \in RikishiIdStrs : get_rikishi_stats(id)
  \/ \E f \in RikishiFilters, l \in Limits, k \in Skips : get_rikishis(f, l, k)
  \/ \E r \in RikishiIds, b \in ListBashoIds : get_rikishi_matches(r, b)
  \/ \E r \in RikishiIds, o \in RikishiIds, b \in ListBashoIds :
       get_rikishi_opponent_matches(r, o, b)
  \/ \E b \in BashoIds : get_basho(b)
  \/ \E b \in BashoIds, d \in Divisions : get_banzuke(b, d)
  \/ \E b \in BashoIds, d \in Divisions, day \in Days : get_torikumi(b, d, day)
  \/ \E sf \in SortFields, s \in SortOrders, l \in OptLimits, k \in OptSkips :
       get_kimarite(sf, s, l, k)
  \/ \E km \in Kimarites, s \in SortOrders, l \in OptLimits, k \in OptSkips :
       get_kimarite_matches(km, s, l, k)
  \/ \E b \in ListBashoIds, r \in OptRikishiIds, s \in SortOrders :
       get_measurements(b, r, s)
  \/ \E b \in ListBashoIds, r \in OptRikishiIds, s \in SortOrders : get_ranks(b, r, s)
  \/ \E b \in ListBashoIds, r \in OptRikishiIds, s \in SortOrders :
       get_shikonas(b, r, s)

SpecTyped == InitTyped /\ [][NextTyped]_vars

\* get_rikishi on the dispatcher, for every retry budget.
NextRikishi ==
  \/ aenter
  \/ \E exc \in ExitPaths : aexit(exc)
  \/ \E o \in Outcomes : Attempt(o)
  \/ \E doc \in RikishiDocs : AttemptRikishi(doc)
  \/ Backoff
  \/ Return
  \/ \E id \in RikishiIdStrs : get_rikishi(id)

SpecRikishi == Init /\ [][NextRikishi]_vars

\* Two tasks calling get_rikishi on one client that stays open once entered,
\* constructed with the default timeout.
InitConcurrent == Init /\ timeout = {}

NextConcurrent ==
  \/ aenter
  \/ Switch
  \/ \E o \in Outcomes : Attempt(o)
  \/ \E doc \in RikishiDocs : AttemptRikishi(doc)
  \/ Backoff
  \/ Return
  \/ \E id \in RikishiIdStrs : get_rikishi(id)

SpecConcurrent == InitConcurrent /\ [][NextConcurrent]_vars

\* ============================================================ claims
\* The claims' own vocabulary, stated apart from the code's definitions.

\* Exactly six characters, each a digit.
SixDigits(b) == Len(b) = 6 /\ \A i \in 1..Len(b) : b[i] \in Digits

\* The methods that take a basho ID.
BashoOps ==
  {"get_basho", "get_banzuke", "get_torikumi", "get_rikishi_matches",
   "get_rikishi_opponent_matches", "get_measurements", "get_ranks", "get_shikonas"}

\* The call was stopped before any request, by a ValueError raised to the caller.
RejectedBeforeRequest ==
  call.pc = "done" /\ IsInstance(call.result, "ValueError") /\ call.nsent = 0

\* C1 (as claimed): on an open client, every method that accepts a basho ID
\* raises ValueError and sends no request when the ID it is given is not
\* exactly six digits (five or seven characters, a non-digit, the empty string).
C1_MalformedBashoIdRejected ==
  (/\ call.op \in BashoOps
   /\ call.pc # "idle"
   /\ _client # 0
   /\ call.args.basho_id # {}
   /\ ~SixDigits(Val(call.args.basho_id)))
  => RejectedBeforeRequest

\* A six-digit ID whose month is a calendar month after the month t.
DenotesLaterMonth(b, t) ==
  LET y == DigitsValue(SubSeq(b, 1, 4))
      m == DigitsValue(SubSeq(b, 5, 6))
  IN SixDigits(b) /\ m \in 1..12 /\ 12 * y + m > 12 * t.year + t.month

\* C10: get_basho, get_banzuke and get_torikumi raise ValueError and send no
\* request for every well-formed basho ID whose year and month denote a
\* calendar month later than the month of the call.
C10_FutureBashoRejected ==
  (/\ call.op \in {"get_basho", "get_banzuke", "get_torikumi"}
   /\ call.pc # "idle"
   /\ DenotesLaterMonth(Val(call.args.basho_id), call.at))
  => RejectedBeforeRequest

\* C10 witness: get_torikumi was called in 2023-06 for 202307 on an open
\* client and raised "Cannot fetch future basho".
C10_Witness ==
  /\ call.op = "get_torikumi"
  /\ call.pc = "done"
  /\ _client # 0
  /\ call.args.basho_id = {<<"2", "0", "2", "3", "0", "7">>}
  /\ call.at = [year |-> 2023, month |-> 6]
  /\ call.result = Raised("ValueError", MsgFetchFuture)
  /\ call.nsent = 0

\* ------------------------------------------------ dispatcher claims
\* An attempt that succeeded: a 2xx response whose body is JSON.
Succeeded(o) ==
  o.kind = "response" /\ o.status \in 200..299 /\ o.body \in {"json", "json_other"}

\* The error of an attempt: the transport's exception, or the HTTPStatusError
\* of the response with its status and body.
IsErrorOf(r, o) ==
  IF o.kind = "response"
  THEN r.kind = "HTTPStatusError" /\ r.status = o.status /\ r.body = o.body
  ELSE r.kind = o.kind

\* C2: when the attempts before the last failed and were retried (k of them,
\* k <= retries) and attempt k+1 succeeds, the dispatcher returns the data of
\* that attempt and has performed exactly k retries.
C2_SuccessAfterRetries ==
  (/\ call.pc = "done"
   /\ call.op \in RawOps
   /\ Succeeded(call.last)
   /\ call.nsent - 1 <= retries)
  => /\ call.result = Returned(call.last.body)
     /\ call.attempts_made = call.nsent - 1

\* C2 witness: two failed attempts, then a 200 with JSON, returned to the caller.
C2_Witness ==
  /\ call.pc = "done"
  /\ call.op = "get"
  /\ call.nsent = 3
  /\ call.attempts_made = 2
  /\ call.last = Resp(200, "json")
  /\ call.result = Returned("json")

\* Transient failures as the specification lists them: a connection failure,
\* a timeout, HTTP 408 and HTTP 429.
SpecTransient(o) ==
  \/ o.kind \in {"ConnectError", "ReadTimeout"}
  \/ o.kind = "response" /\ o.status \in {408, 429}

\* C3 (as claimed): a request whose every attempt fails transiently is
\* attempted exactly retries+1 times and then raises the last attempt's error.
C3_ExhaustedAfterMaxRetries ==
  (call.pc = "done" /\ call.nsent >= 1 /\ SpecTransient(call.last))
  => call.nsent = retries + 1 /\ IsErrorOf(call.result, call.last)

\* The methods and failures the installed retry policy retries.
PolicyMethods == {"HEAD", "GET", "PUT", "DELETE", "OPTIONS", "TRACE"}

PolicyFailure(o) ==
  \/ o.kind \in {"ConnectError", "ReadTimeout", "RemoteProtocolError"}
  \/ o.kind = "response" /\ o.status \in {429, 502, 503, 504}

\* C3 (amended): a request with a method of the retry policy (GET, which every
\* endpoint method uses, HEAD, PUT, DELETE, OPTIONS, TRACE) whose every attempt
\* fails with a failure the policy retries (connection failure, timeout,
\* protocol error, status 429, 502, 503 or 504) is attempted exactly retries+1
\* times, never more, and then raises the last attempt's error.
C3_ExhaustedAfterMaxRetries_Amended ==
  /\ call.nsent <= retries + 1
  /\ (/\ call.pc = "done"
      /\ call.nsent >= 1
      /\ call.method \in PolicyMethods
      /\ PolicyFailure(call.last))
     => call.nsent = retries + 1 /\ IsErrorOf(call.result, call.last)

\* C3 witness: with retries = 2, a GET that timed out three times raises the
\* third timeout.
C3_Witness ==
  /\ retries = 2
  /\ call.pc = "done"
  /\ call.method = "GET"
  /\ call.nsent = 3
  /\ call.last = Exc("ReadTimeout")
  /\ call.result.kind = "ReadTimeout"

\* A 4xx status other than 408 and 429.
NonRetryable4xx(o) ==
  o.kind = "response" /\ o.status \in 400..499 /\ o.status \notin {408, 429}

Decided == call.nsent >= 1 /\ call.pc \in {"backoff", "done"}

\* C5 (as claimed): exactly a connection failure, a timeout, a 408 and a 429
\* are retried, each while the budget lasts; no other 4xx is.
C5_RetryableSet ==
  Decided
  => /\ (SpecTransient(call.last) /\ call.attempts_made < retries)
          => call.pc = "backoff"
     /\ call.pc = "backoff" => SpecTransient(call.last)

\* C5 (amended): for a method of the retry policy, exactly a connection
\* failure, a timeout, a protocol error and the statuses 429, 502, 503 and 504
\* are retried, each while the budget lasts; every other 4xx, 408 included, and
\* every failure of a POST ends the call without a further attempt.
C5_RetryableSet_Amended ==
  Decided
  => /\ call.pc = "backoff"
          <=> /\ call.method \in PolicyMethods
              /\ PolicyFailure(call.last)
              /\ call.attempts_made < retries
     /\ (call.last.kind = "response" /\ call.last.status \in 400..499
           /\ call.last.status # 429)
          => call.pc = "done"

\* C5 witness: a GET answered with 429 on its first attempt is about to be
\* sent again.
C5_Witness ==
  /\ call.pc = "backoff"
  /\ call.method = "GET"
  /\ call.attempts_made = 0
  /\ call.last = Resp(429, "not_json")

\* C6: entering the context acquires a fresh open pool; leaving it, normally
\* or by any exception raised in the body, closes the pool the client holds
\* and leaves _client None.
C6_PoolReleasedOnExit ==
  [][/\ depth' > depth
          => /\ _client' # 0
             /\ _client' \notin DOMAIN pools
             /\ pools'[_client'] = "open"
     /\ depth' < depth
          => /\ _client' = 0
             /\ _client # 0 => pools'[_client] = "closed"]_vars

\* C6 witness: the block was left by an HTTP error the body raised; the pool
\* is closed and the client holds none.
C6_Witness ==
  /\ exitedBy = "HTTPStatusError"
  /\ depth = 0
  /\ _client = 0
  /\ pools = <<"closed">>

\* C7 (as claimed): _make_request on a client that is not open raises
\* RuntimeError matching 'Client must be used as an async context manager'
\* and sends nothing.
C7_NotOpenMessage ==
  (call.pc = "done" /\ call.op \in RawOps /\ _client = 0)
  => /\ IsInstance(call.result, "RuntimeError")
     /\ Matches(call.result.msg,
                <<"Client", "must", "be", "used", "as", "an", "async", "context",
                  "manager">>)
     /\ call.nsent = 0

\* C8 (as claimed): a success response whose body is not JSON makes
\* _make_request raise RuntimeError matching 'Invalid JSON from API', without
\* another attempt and without a value.
C8_InvalidJsonRuntimeError ==
  (/\ call.pc = "done"
   /\ call.last.kind = "response"
   /\ call.last.status \in 200..299
   /\ call.last.body = "not_json")
  => /\ IsInstance(call.result, "RuntimeError")
     /\ Matches(call.result.msg, <<"Invalid", "JSON", "from", "API">>)

\* C9 (as claimed): a 404 whose body is {"error": m} makes _make_request raise
\* ValueError with the message 'API Error: ' followed by m.
C9_NotFoundApiError ==
  (call.pc = "done" /\ call.op \in RawOps /\ call.last = Resp(404, "error_json"))
  => /\ IsInstance(call.result, "ValueError")
     /\ call.result.msg = <<"API", "Error:">> \o ErrorText

\* ------------------------------------------------ validation claims
\* The six division names, as the claims list them.
SixDivisions ==
  {"Makuuchi", "Juryo", "Makushita", "Sandanme", "Jonidan", "Jonokuchi"}

\* The basho ID of the call passed the method's checks of the ID: it splits
\* into a year and a month of the calendar, not later than the month of the call.
BashoAccepted ==
  /\ basho_date(Val(call.args.basho_id)) # {}
  /\ LET d == Val(basho_date(Val(call.args.basho_id)))
     IN 12 * d.year + d.month <= 12 * call.at.year + call.at.month

\* A call of get_banzuke or get_torikumi with a division outside the six.
BadDivisionCall ==
  /\ call.op \in {"get_banzuke", "get_torikumi"}
  /\ call.pc # "idle"
  /\ Val(call.args.division) \notin SixDivisions

\* C11 (as claimed): get_banzuke and get_torikumi raise ValueError 'Invalid
\* division' and send no request for every division that is not one of the six
\* names, matched exactly.
C11_InvalidDivisionRejected ==
  BadDivisionCall
  => /\ RejectedBeforeRequest
     /\ Matches(call.result.msg, <<"Invalid", "division">>)

\* C11 (amended): for every division that is not one of the six names,
\* get_banzuke and get_torikumi raise ValueError and send no request; the
\* message is 'Invalid division' whenever the basho ID passed its own checks,
\* which come first, and the basho ID's message otherwise.
C11_InvalidDivisionRejected_Amended ==
  BadDivisionCall
  => /\ RejectedBeforeRequest
     /\ BashoAccepted => call.result.msg = <<"Invalid", "division">>
     /\ ~BashoAccepted => call.result.msg \in {MsgYYYYMM, MsgFetchFuture}

\* C11 witness: get_banzuke for 202301 with the division "makuuchi" raised
\* 'Invalid division' on an open client.
C11_Witness ==
  /\ call.op = "get_banzuke"
  /\ call.pc = "done"
  /\ _client # 0
  /\ call.args.basho_id = {<<"2", "0", "2", "3", "0", "1">>}
  /\ call.args.division = {"makuuchi"}
  /\ call.result = Raised("ValueError", <<"Invalid", "division">>)
  /\ call.nsent = 0

\* A call of get_torikumi with a day below 1 or above 15.
BadDayCall ==
  /\ call.op = "get_torikumi"
  /\ call.pc # "idle"
  /\ (Val(call.args.day) < 1 \/ Val(call.args.day) > 15)

\* A call of get_torikumi with a day from 1 to 15 and a basho ID and a
\* division that pass their checks.
GoodDayCall ==
  /\ call.op = "get_torikumi"
  /\ call.pc # "idle"
  /\ Val(call.args.day) \in 1..15
  /\ BashoAccepted
  /\ Val(call.args.division) \in SixDivisions

\* C12 (as claimed): get_torikumi raises ValueError 'Day must be between 1 and
\* 15' and sends no request for every day below 1 or above 15, and accepts
\* every day from 1 to 15.
C12_DayRange ==
  /\ BadDayCall
       => /\ RejectedBeforeRequest
          /\ Matches(call.result.msg,
                     <<"Day", "must", "be", "between", "1", "and", "15">>)
  /\ GoodDayCall => ~RejectedBeforeRequest

\* C12 (amended): get_torikumi raises ValueError and sends no request for every
\* day below 1 or above 15; the message is 'Day must be between 1 and 15'
\* exactly when the basho ID and the division passed their checks, which come
\* first.  With those passed, every day from 1 to 15 is accepted.
C12_DayRange_Amended ==
  /\ BadDayCall
       => /\ RejectedBeforeRequest
          /\ (BashoAccepted /\ Val(call.args.division) \in SixDivisions)
               <=> call.result.msg
                     = <<"Day", "must", "be", "between", "1", "and", "15">>
  /\ GoodDayCall => ~RejectedBeforeRequest

\* C12 witness: day 16 of 202301 Makuuchi was refused with the day's message,
\* on an open client.
C12_Witness ==
  /\ call.op = "get_torikumi"
  /\ call.pc = "done"
  /\ _client # 0
  /\ call.args.basho_id = {<<"2", "0", "2", "3", "0", "1">>}
  /\ call.args.division = {"Makuuchi"}
  /\ call.args.day = {16}
  /\ call.result = Raised("ValueError", MsgDay)
  /\ call.nsent = 0

\* The methods that filter by basho or by rikishi.
HistoryOps == {"get_measurements", "get_ranks", "get_shikonas"}

\* C15: get_measurements, get_ranks and get_shikonas, called with neither a
\* basho_id nor a rikishi_id, raise ValueError 'Either basho_id or rikishi_id
\* must be provided' and send no request, whatever the sort order.
C15_NeitherGivenRejected ==
  (/\ call.op \in HistoryOps
   /\ call.pc # "idle"
   /\ call.args.basho_id = {}
   /\ call.args.rikishi_id = {})
  => /\ RejectedBeforeRequest
     /\ call.result.msg
          = <<"Either", "basho_id", "or", "rikishi_id", "must", "be", "provided">>

\* C15 witness: get_ranks() with no argument raised on an open client.
C15_Witness ==
  /\ call.op = "get_ranks"
  /\ call.pc = "done"
  /\ _client # 0
  /\ call.args = NoArgs
  /\ call.result = Raised("ValueError", MsgEither)
  /\ call.nsent = 0

\* C16 (as claimed): for every rikishi_id <= 0, zero included, with a
\* well-formed basho_id or with none, get_measurements, get_ranks and
\* get_shikonas raise ValueError 'Rikishi ID must be positive' and send no
\* request.
C16_NonPositiveRikishiRejected ==
  (/\ call.op \in HistoryOps
   /\ call.pc # "idle"
   /\ call.args.rikishi_id # {}
   /\ Val(call.args.rikishi_id) <= 0
   /\ call.args.basho_id = {} \/ SixDigits(Val(call.args.basho_id)))
  => /\ RejectedBeforeRequest
     /\ Matches(call.result.msg, <<"Rikishi", "ID", "must", "be", "positive">>)

\* ------------------------------------------------------ sorting claims
\* b is a rearrangement of a: the same records, each as often.
IsPermutation(a, b) ==
  /\ Len(a) = Len(b)
  /\ \A r \in RecordPool :
       Cardinality({i \in DOMAIN a : a[i] = r}) = Cardinality({i \in DOMAIN b : b[i] = r})

\* The basho ID of a record as a number (the IDs of the records are six digits).
BashoNumber(r) == DigitsValue(r.basho_id)

\* C17: the list get_measurements, get_ranks and get_shikonas return is a
\* permutation of the records of the response, none dropped and none twice,
\* ordered by basho_id: non-increasing for 'desc', non-decreasing for 'asc',
\* whatever the order the remote sent them in.
C17_SortedPermutation ==
  (/\ call.op \in HistoryOps
   /\ call.pc = "done"
   /\ call.result.kind = "value"
   /\ call.args.sort_order \in {{"asc"}, {"desc"}})
  => /\ IsPermutation(call.data, call.items)
     /\ \A i, j \in DOMAIN call.items :
          i < j => IF call.args.sort_order = {"desc"}
                   THEN BashoNumber(call.items[i]) >= BashoNumber(call.items[j])
                   ELSE BashoNumber(call.items[i]) <= BashoNumber(call.items[j])

\* C17 witness: get_measurements(rikishi_id=1, sort_order='desc') was answered
\* with the records of 202301, 202303, 202301 and returned 202303 first.
C17_Witness ==
  /\ call.op = "get_measurements"
  /\ call.pc = "done"
  /\ call.args.sort_order = {"desc"}
  /\ call.data = <<Rec(1, <<"2", "0", "2", "3", "0", "1">>, TRUE),
                   Rec(2, <<"2", "0", "2", "3", "0", "3">>, TRUE),
                   Rec(3, <<"2", "0", "2", "3", "0", "1">>, TRUE)>>
  /\ call.items = <<Rec(2, <<"2", "0", "2", "3", "0", "3">>, TRUE),
                    Rec(1, <<"2", "0", "2", "3", "0", "1">>, TRUE),
                    Rec(3, <<"2", "0", "2", "3", "0", "1">>, TRUE)>>
  /\ call.result = Returned("json")

\* ------------------------------------------------------ rikishi claims
\* The renaming the claim declares; every other field keeps its name.
Renamed(field) ==
  CASE field = "shikonaEn" -> "shikona_en"
    [] field = "shikonaJp" -> "shikona_jp"
    [] field = "currentRank" -> "current_rank"
    [] field = "sumodbId" -> "sumodb_id"
    [] field = "nskId" -> "nsk_id"
    [] OTHER -> field

OwnResult(c) ==
  (c.op = "get_rikishi" /\ c.pc = "done" /\ c.nsent >= 1)
  => /\ c.method = "GET"
     /\ c.url = "/rikishi/" \o Val(c.args.rikishi_id)
     /\ c.nsent = c.attempts_made + 1
     /\ c.attempts_made <= retries
     /\ IF c.result.kind = "value"
        THEN /\ Succeeded(c.last)
             /\ c.data # <<>>
                  => \A field \in DOMAIN c.data[1] :
                       c.items[1][Renamed(field)] = c.data[1][field]
        ELSE CASE c.last = Resp(200, "json_other") -> c.result.kind = "ValidationError"
               [] c.last = Resp(200, "not_json") -> c.result.kind = "JSONDecodeError"
               [] OTHER -> IsErrorOf(c.result, c.last)

C20_ErrorsPropagate ==
  (call.op \notin RawOps /\ call.pc = "done")
  => /\ call.nsent = 0 => IsError(call.result)
     /\ (call.nsent >= 1 /\ call.last.kind # "response")
          => call.result.kind = call.last.kind
     /\ (call.last.kind = "response" /\ call.last.status \notin 200..299)
          => /\ call.result.kind = "HTTPStatusError"
             /\ call.result.status = call.last.status
     /\ (call.last.kind = "response" /\ call.last.status \in 200..299
           /\ call.last.body = "not_json")
          => call.result.kind = "JSONDecodeError"
     /\ (call.last.kind = "response" /\ call.last.status \in 200..299
           /\ call.last.body = "json_other")
          => call.result.kind = "ValidationError" /\ call.items = <<>>
     /\ (\E i \in DOMAIN call.data : ~call.data[i].valid)
          => call.result.kind = "ValidationError" /\ call.items = <<>>
     /\ call.result.kind = "value"
          => /\ call.last = Resp(200, "json")
             /\ Len(call.items) = Len(call.data)

\* C20 witness: get_measurements was answered with a list whose second item
\* does not fit the schema and raised the validation error, returning nothing.
C20_Witness ==
  /\ call.op = "get_measurements"
  /\ call.pc = "done"
  /\ call.data = <<Rec(1, <<"2", "0", "2", "3", "0", "1">>, TRUE), Rec(5, <<>>, FALSE)>>
  /\ call.result.kind = "ValidationError"
  /\ call.items = <<>>

\* ------------------------------------------------------ request claims
\* The thirteen typed endpoint methods.
TypedOps ==
  {"get_rikishi", "get_rikishi_stats", "get_rikishis", "get_rikishi_matches",
   "get_rikishi_opponent_matches", "get_basho", "get_banzuke", "get_torikumi",
   "get_kimarite", "get_kimarite_matches", "get_measurements", "get_ranks",
   "get_shikonas"}

\* C21: a call of a typed endpoint method on an open client either is stopped
\* by an exception of the validation, with nothing sent, or dispatches one
\* request, a GET with no body: the request is on the wire once, and once more
\* for each retry of the transport within the budget, never twice at a time.
C21_OneGetPerCall ==
  (call.op \in TypedOps /\ call.pc # "idle" /\ _client # 0)
  => \/ /\ call.pc = "done"
        /\ call.nsent = 0
        /\ call.result.kind \in {"ValueError", "TypeError"}
     \/ /\ call.method = "GET"
        /\ call.json = {}
        /\ call.pool = _client
        /\ call.attempts_made <= retries
        /\ call.nsent = call.attempts_made + (IF call.pc = "send" THEN 0 ELSE 1)

\* C21 witness: get_rikishi_stats("1511") ended with one GET sent, and the
\* retry budget was not touched.
C21_Witness ==
  /\ call.op = "get_rikishi_stats"
  /\ call.pc = "done"
  /\ call.method = "GET"
  /\ call.url = "/rikishi/1511/stats"
  /\ call.json = {}
  /\ call.nsent = 1
  /\ call.result = Returned("json")

\* ------------------------------------------------- construction claims
\* C22 (as claimed): a client can be built with verify_ssl=True, so that its
\* entry raises the RuntimeError of the missing trust store, and with
\* verify_ssl=False, the explicit opt-out: the constructor accepts the
\* argument and returns a client.
C22_VerifySslAccepted ==
  (call.op = "SumoClient" /\ call.pc = "done" /\ call.args.verify_ssl # {})
  => call.result.kind = "value"

\* ------------------------------------------------------- query claims
\* 'true' or 'false' for a flag, as the claim renders it.
FlagText(b) == IF b THEN "true" ELSE "false"

\* The filter is in the query under its remote name, with the caller's value,
\* exactly when the caller supplied a value.
FilterSent(query, name, supplied, text) ==
  /\ name \in DOMAIN query <=> supplied # {}
  /\ supplied # {} => query[name] = text

\* C23 (as claimed): get_rikishis issues a GET of /rikishis whose query has
\* limit and skip as given, measurements, ranks and shikonas as 'true' or
\* 'false', and each of shikonaEn, heya, sumodbId, nskId and intai if and only
\* if the caller supplied a value for the filter, with that value.
C23_RikishisQuery ==
  (call.op = "get_rikishis" /\ call.pc # "idle" /\ _client # 0)
  => LET f == Val(call.args.filters)
         q == call.query
     IN /\ call.method = "GET"
        /\ call.url = "/rikishis"
        /\ q["limit"] = ToString(Val(call.args.limit))
        /\ q["skip"] = ToString(Val(call.args.skip))
        /\ q["measurements"] = FlagText(f.measurements)
        /\ q["ranks"] = FlagText(f.ranks)
        /\ q["shikonas"] = FlagText(f.shikonas)
        /\ FilterSent(q, "shikonaEn", f.shikona_en,
                      IF f.shikona_en = {} THEN "" ELSE Val(f.shikona_en))
        /\ FilterSent(q, "heya", f.heya, IF f.heya = {} THEN "" ELSE Val(f.heya))
        /\ FilterSent(q, "sumodbId", f.sumodb_id,
                      IF f.sumodb_id = {} THEN "" ELSE ToString(Val(f.sumodb_id)))
        /\ FilterSent(q, "nskId", f.nsk_id,
                      IF f.nsk_id = {} THEN "" ELSE ToString(Val(f.nsk_id)))
        /\ FilterSent(q, "intai", f.intai,
                      IF f.intai = {} THEN "" ELSE FlagText(Val(f.intai)))
        /\ DOMAIN q \subseteq {"limit", "skip", "measurements", "ranks", "shikonas",
                                "shikonaEn", "heya", "sumodbId", "nskId", "intai"}

\* ------------------------------------------- synchronous client claims
\* The exception the block of a with-statement ends by, if the last call of
\* the block raised one that the block did not handle.
RaisedInBlock == IF IsError(call.result) THEN {call.result.kind} ELSE {}

LivePools == {p \in DOMAIN pools : pools[p] = "open"}

\* C25 (as claimed): a client has at most one live pool at any time, and once
\* the exits equal the entries (no with-block is open) every pool an entry
\* created has been closed, also when the context was entered twice without
\* an exit in between.
C25_NoPoolLeak ==
  /\ Cardinality(LivePools) <= 1
  /\ depth = 0 => LivePools = {}

\* ------------------------------------------------- parameter claims
\* The template with every placeholder replaced by the value of the parameter
\* of its name; a placeholder without a parameter stays, in braces.
RECURSIVE Fill(_, _)
Fill(path, params) ==
  IF path = <<>> THEN ""
  ELSE (IF ~path[1].ph THEN path[1].s
        ELSE IF path[1].s \in DOMAIN params THEN params[path[1].s]
        ELSE "{" \o path[1].s \o "}")
       \o Fill(Tail(path), params)

\* The names of the placeholders of a template.
Named(path) == {path[i].s : i \in {j \in DOMAIN path : path[j].ph}}

\* C26: of the params _make_request is given, those named by a placeholder of
\* the path template are substituted into the path and are not in the query,
\* and all the others are in the query unchanged; the two sets are disjoint
\* and make up the params.  A request goes out only with every placeholder
\* filled: a template with a placeholder that no parameter names raises
\* KeyError and sends nothing.
C26_ParamsPartitioned ==
  (call.pc # "idle" /\ call.path # <<>>)
  => LET inPath == DOMAIN call.params \cap Named(call.path)
         unfilled == Named(call.path) \ DOMAIN call.params
     IN IF unfilled # {}
        THEN /\ call.pc = "done"
             /\ call.nsent = 0
             /\ call.result.kind = "KeyError"
        ELSE /\ call.url = Fill(call.path, call.params)
             /\ DOMAIN call.query = DOMAIN call.params \ inPath
             /\ DOMAIN call.query \cap inPath = {}
             /\ DOMAIN call.query \cup inPath = DOMAIN call.params
             /\ \A k \in DOMAIN call.query : call.query[k] = call.params[k]

\* C26 witness: get_kimarite_matches("yorikiri", "desc", 10, 5) put the
\* kimarite into the path and the three others into the query.
C26_Witness ==
  /\ call.op = "get_kimarite_matches"
  /\ call.pc = "send"
  /\ call.url = "/kimarite/yorikiri"
  /\ DOMAIN call.params = {"kimarite", "sortOrder", "limit", "skip"}
  /\ call.query = [sortOrder |-> "desc", limit |-> "10", skip |-> "5"]

\* ------------------------------------------------------ reuse claims
\* C27: a client is reusable across open/close cycles.  Every entry, a
\* re-entry after an exit included, leaves the client open on a fresh pool,
\* with the timeout and the retry setting of the construction; a request is
\* sent, and sent again, only on a pool that is open, never on a closed one;
\* and in every cycle a request that is answered with a success returns its
\* data, within the same retry budget.
C27_ReusableAcrossCycles ==
  /\ [](/\ call.pc \in {"send", "backoff"} \/ call.nsent >= 1
             => call.pool \in DOMAIN pools /\ pools[call.pool] = "open"
        /\ call.attempts_made <= retries
        /\ (call.pc = "done" /\ call.op \in RawOps /\ call.last = Resp(200, "json"))
             => call.result = Returned("json"))
  /\ [][/\ depth' > depth
             => /\ _client' \notin DOMAIN pools
                /\ _client' \in DOMAIN pools'
                /\ pools'[_client'] = "open"
         /\ retries' = retries
         /\ timeout' = timeout]_vars

\* C27 witness: after enter, exit, enter the client is open on its second
\* pool, the first being closed, and a GET sent on the second pool after a
\* retry returned its data.
C27_Witness ==
  /\ pools = <<"closed", "open">>
  /\ _client = 2
  /\ depth = 1
  /\ call.pc = "done"
  /\ call.op = "get"
  /\ call.pool = 2
  /\ call.attempts_made = 1
  /\ call.last = Resp(200, "json")
  /\ call.result = Returned("json")

\* ------------------------------------------------------ stamping claims
\* The record has the field, with the value.
Carries(rec, field, value) == field \in DOMAIN rec /\ rec[field] = value

\* C28 (as claimed): the record get_torikumi returns carries the division and
\* the day the caller passed, whatever division or day the payload has, and
\* as its basho ID the payload's bashoId when it has one and else its date;
\* the record get_banzuke returns carries the requested basho ID, whatever
\* bashoId the payload has, and every wrestler under east has the side
\* 'East' and every wrestler under west the side 'West'.
C28_Stamped ==
  (call.pc = "done" /\ call.result.kind = "value" /\ call.data # <<>>)
  => LET doc == call.data[1]
         rec == call.items[1]
     IN /\ call.op = "get_torikumi"
             => /\ Carries(rec, "division", Val(call.args.division))
                /\ Carries(rec, "day", ToString(Val(call.args.day)))
                /\ Carries(rec, "basho_id",
                           IF "bashoId" \in DOMAIN doc THEN doc["bashoId"]
                           ELSE doc["date"])
        /\ call.op = "get_banzuke"
             => /\ Carries(rec, "basho_id", Str(Val(call.args.basho_id)))
                /\ Len(rec["east"]) = Len(doc["east"])
                /\ Len(rec["west"]) = Len(doc["west"])
                /\ \A i \in DOMAIN rec["east"] : rec["east"][i]["side"] = "East"
                /\ \A i \in DOMAIN rec["west"] : rec["west"][i]["side"] = "West"

\* ------------------------------------------------ calendar month claims
\* The last two characters of a basho ID are digits that read 01 to 12.
RealMonth(b) ==
  /\ Len(b) >= 2
  /\ isdigit(SubSeq(b, Len(b) - 1, Len(b)))
  /\ DigitsValue(SubSeq(b, Len(b) - 1, Len(b))) \in 1..12

\* The basho IDs the request of the call carries: as the bashoId query
\* parameter, as the basho_id path parameter, or written into the path.
SentBashoIds ==
  {b \in BashoIds :
     \/ "bashoId" \in DOMAIN call.query /\ call.query["bashoId"] = Str(b)
     \/ "basho_id" \in DOMAIN call.params /\ call.params["basho_id"] = Str(b)
     \/ call.op = "get_basho" /\ call.url = "/basho/" \o Str(b)}

\* C29 (as claimed): a basho ID that an endpoint method sends to the remote,
\* in the path or as the bashoId query parameter, has its last two digits
\* between 01 and 12; and every method that accepts a basho ID raises
\* ValueError before any request for a six-digit ID with month 00 or 13.
C29_BashoMonthValid ==
  /\ call.nsent >= 1 => \A b \in SentBashoIds : RealMonth(b)
  /\ (/\ call.op \in BashoOps
      /\ call.pc # "idle"
      /\ _client # 0
      /\ call.args.basho_id # {}
      /\ SixDigits(Val(call.args.basho_id))
      /\ ~RealMonth(Val(call.args.basho_id)))
     => RejectedBeforeRequest

\* ------------------------------------------------ kimarite argument claims
KimariteOps == {"get_kimarite", "get_kimarite_matches"}

\* C30 (as claimed): for every combination of arguments the signatures of
\* get_kimarite and get_kimarite_matches permit (sort_order, limit and skip
\* may be None), a call on an open client either raises ValueError before any
\* request or issues one GET; skip=None is not a reason to reject, and the
\* query then has no skip, as it has no limit for limit=None.
C30_KimariteArgsTotal ==
  (call.op \in KimariteOps /\ call.pc # "idle" /\ _client # 0)
  => /\ \/ RejectedBeforeRequest
        \/ /\ call.method = "GET"
           /\ call.nsent <= 1
           /\ call.pc = "done" => call.nsent = 1
     /\ (call.args.skip = {} /\ call.pc = "done" /\ call.nsent = 0)
          => /\ IsInstance(call.result, "ValueError")
             /\ call.result.msg # MsgSkip
     /\ (call.args.skip = {} /\ call.method = "GET")
          => "skip" \notin DOMAIN call.query
     /\ (call.args.limit = {} /\ call.method = "GET")
          => "limit" \notin DOMAIN call.query

\* ------------------------------------------------ pagination claims
\* The methods that take limit and skip.
PagedOps == {"get_rikishis", "get_kimarite", "get_kimarite_matches"}

\* A limit or a skip below zero, or a limit above the cap of 1000.
BadPage(limit, skip) ==
  \/ limit # {} /\ (Val(limit) < 0 \/ Val(limit) > 1000)
  \/ skip # {} /\ Val(skip) < 0

\* C13 (as claimed): get_rikishis, get_kimarite and get_kimarite_matches raise
\* an error before any request when limit or skip is negative or limit is
\* above 1000, so that no request goes out with such a limit or skip.
C13_PaginationValidated ==
  (/\ call.op \in PagedOps
   /\ call.pc # "idle"
   /\ _client # 0
   /\ BadPage(call.args.limit, call.args.skip))
  => RejectedBeforeRequest

\* ------------------------------------------------ termination claims
\* C14 (as claimed): every request is under a timeout, for a client built with
\* the default arguments too, so that a call whose request has gone out
\* always comes to return or raise, even when the remote never answers.
C14_CallsTerminate == (call.pc = "send") ~> (call.pc = "done")

====
